---- MODULE Spec2Model ----
(***************************************************************************)
(* Model of the meeting-transcriber backend (tami/backend) and of the      *)
(* transcription providers it uses (src/transcription).                    *)
(*                                                                         *)
(* Spec         POST /transcribe, the background process_transcription     *)
(*              runs it schedules, and PATCH /sessions/{id}.               *)
(* SpecRun      the same operations for a single request, under every      *)
(*              configuration.                                             *)
(* SpecScratch  concurrent TranscriptionService.transcribe_audio calls and *)
(*              the scratch files of AudioProcessor.                       *)
(* SpecRouting  TranscriptionService.transcribe_with_auto_routing.         *)
(* SpecWhisper  one WhisperTranscriber.transcribe / detect_language call   *)
(*              with its retry loop.                                       *)
(* SpecTransform one call of label_speakers, of the labeling step of      *)
(*              transcribe_audio, of _label_speakers or of                 *)
(*              refine_transcript.                                         *)
(* SpecSegments one transcript from its source to the stored segment rows. *)
(* SpecSummary  one Summarizer.generate_summary call.                      *)
(* SpecEntities one extract_entities / extract_and_deduplicate call.       *)
(* SpecProcess  one AudioProcessor.process call.                           *)
(* SpecChat     the POST /chat requests of one session.                    *)
(* SpecConfig   one command line with its YAML file, up to the chat step   *)
(*              of main.                                                   *)
(* SpecUpsert   the entity upsert of concurrent runs of one user.          *)
(* SpecPersist  the rows concurrent runs store before 'completed'.         *)
(* SpecRecording the upload_chunk and stop_recording requests of one       *)
(*              recording.                                                 *)
(* SpecLive     SpecRun with the fairness of the background run.           *)
(***************************************************************************)
EXTENDS Integers, Sequences, FiniteSets, TLC

(***************************************************************************)
(* Bounds of the model.                                                    *)
(***************************************************************************)
\* number of session rows db.session.create may create in one behaviour
MaxSessions == 2
\* number of concurrent transcribe_audio calls
MaxJobs == 2

VARIABLES
  settings,     \* app.core.config.settings: the fields the pipeline reads
  status,       \* Session.status of every session row ("none": no such row)
  nextId,       \* the id db.session.create gives to the next session row
  runs,         \* the background tasks added by add_task, in order
  transcriptRows, \* number of Transcript rows per session
  summaryRows,  \* number of Summary rows per session
  pydub,        \* PYDUB_AVAILABLE of lib/audio/processor.py
  scratch,      \* the files of <tmp>/meeting-transcriber, by name
  jobs,         \* the transcribe_audio calls in progress
  routing,      \* one transcribe_with_auto_routing call
  call,         \* one WhisperTranscriber call
  transform,    \* one labeling or refinement call on a TranscriptResult
  segments,     \* one transcript on its way from a source to the database
  summary,      \* one Summarizer.generate_summary call
  extraction,   \* one EntityExtractionService call
  audio,        \* one AudioProcessor.process call and the files it sees
  chat,         \* the ChatMessage rows of a session and the POST /chat requests
  config,       \* one command line, its YAML file and the Config loaded from them
  upsert,       \* the Entity rows of a user and the runs that store entities
  persist,      \* the rows process_transcription stores for its session
  recording     \* one recording session, its directory and its requests

pipeVars == <<settings, status, nextId, runs, transcriptRows, summaryRows>>

scratchVars == <<pydub, scratch, jobs>>

\* what the pipeline actions leave alone
appVars == <<audio, chat, config, upsert, persist, recording>>

textVars == <<transform, segments, summary, extraction, appVars>>

notPipeVars == <<pydub, scratch, jobs, routing, call, textVars>>

vars == <<settings, status, nextId, runs, transcriptRows, summaryRows,
          pydub, scratch, jobs, routing, call,
          transform, segments, summary, extraction,
          audio, chat, config, upsert, persist, recording>>

SessionIds == 1..MaxSessions

(***************************************************************************)
(* The parts of the state a specification does not use stay as they are    *)
(* here.                                                                   *)
(***************************************************************************)
JobIds == 1..MaxJobs

\* input_path.stem of the inputs of the model; the scratch file of a stem is
\* <tmp>/meeting-transcriber/<stem>_processed.wav
Stems == {"recording", "meeting"}

ScratchNames == Stems

\* no such file / no file opened yet
Absent == [dir |-> "absent", stem |-> "absent"]

NoPath == [dir |-> "none", stem |-> "none"]

IdleJob == [pc |-> "idle"]

ScratchIdle ==
  /\ pydub = TRUE
  /\ scratch = [n \in ScratchNames |-> Absent]
  /\ jobs = [j \in JobIds |-> IdleJob]

RoutingIdle == routing = [pc |-> "idle"]

WhisperIdle == call = [pc |-> "idle"]

TransformIdle == transform = [pc |-> "idle"]

SegmentsIdle == segments = [pc |-> "idle"]

SummaryIdle == summary = [pc |-> "idle"]

ExtractionIdle == extraction = [pc |-> "idle"]

AudioIdle == audio = [pc |-> "idle"]

ChatIdle == chat = [pc |-> "idle"]

ConfigIdle == config = [pc |-> "idle"]

UpsertIdle == upsert = [pc |-> "idle"]

PersistIdle == persist = [pc |-> "idle"]

RecordingIdle == recording = [pc |-> "idle"]

AppIdle ==
  /\ AudioIdle /\ ChatIdle /\ ConfigIdle
  /\ UpsertIdle /\ PersistIdle /\ RecordingIdle

TextIdle ==
  /\ TransformIdle /\ SegmentsIdle /\ SummaryIdle /\ ExtractionIdle
  /\ AppIdle


StatusValues == {"pending", "processing", "completed", "failed"}

(***************************************************************************)
(* The upload directory tree under settings.UPLOAD_DIR: the first file of  *)
(* each upload directory ("missing": no such directory, "empty": it holds  *)
(* no file).                                                               *)
(***************************************************************************)
UploadIds == {"u1", "u2", "u3", "u4"}

FirstFile(uploadId) ==
  CASE uploadId = "u1" -> "recording.wav"
    [] uploadId = "u2" -> "notes.txt"
    [] uploadId = "u3" -> "empty"
    [] OTHER           -> "missing"

\* Path.suffix.lower() of the two files above
Suffix(file) == IF file = "notes.txt" THEN ".txt" ELSE ".wav"

(***************************************************************************)
(* The request objects handed to transcribe().  The TranscriptionRequest   *)
(* schema declares uploadId, context, participants, transcriptionProvider, *)
(* transcriptionModel, summaryModel and userId, and no autoDetectLanguage: *)
(* an object that FastAPI validated against the schema has                 *)
(* autoDetect = "absent".  "true" and "false" are request objects that do  *)
(* carry the attribute (a caller of the handler function with an extended  *)
(* request type).                                                          *)
(***************************************************************************)
Req(u, p, a) == [uploadId |-> u, transcriptionProvider |-> p, autoDetect |-> a]

TranscriptionRequest ==
  { Req("u1", "auto", "true"),      \* audio, auto-routing
    Req("u1", "whisper", "true"),   \* audio, explicitly named provider
    Req("u1", "auto", "false"),     \* audio, "auto" with detection switched off
    Req("u2", "whisper", "true"),   \* text import
    Req("u1", "whisper", "absent"), \* audio, schema-validated request
    Req("u2", "auto", "absent"),    \* text import, schema-validated request
    Req("u3", "whisper", "absent"), \* upload directory without a file
    Req("u4", "whisper", "absent") } \* no such upload directory

\* api_key computed by transcribe(): settings.OPENAI_API_KEY or settings.SECRET_KEY
HandlerApiKey(cfg) == IF cfg.OPENAI_API_KEY # "none" THEN cfg.OPENAI_API_KEY ELSE "secret"

\* the record add_task stores: the arguments of process_transcription and
\* the locals of the coroutine
NewRun(sid, file, req, cfg) ==
  [session_id |-> sid,
   audio_path |-> file,
   provider |-> req.transcriptionProvider,
   auto_detect_language |-> req.autoDetect,
   api_key |-> HandlerApiKey(cfg),
   pc |-> "start",
   openai_key |-> "unbound",
   cause |-> "none",
   entityFailed |-> FALSE,
   billingFailed |-> FALSE,
   wrote |-> <<>>]

\* a handler that looks the session up by its audio file instead of using the
\* row it has just created
SessionOfSameUpload(created, req) ==
  IF \E r \in DOMAIN runs : runs[r].audio_path = FirstFile(req.uploadId)
  THEN runs[CHOOSE r \in DOMAIN runs : runs[r].audio_path = FirstFile(req.uploadId)].session_id
  ELSE created

\* session.id handed to add_task: the id of the row just created
HandedSessionId(created, req) == created

(***************************************************************************)
(* POST /transcribe                                                        *)
(***************************************************************************)
TranscribeNotFound(req) ==
  /\ FirstFile(req.uploadId) \in {"missing", "empty"}
  /\ UNCHANGED vars

\* db.session.create raises: HTTP 500, no row
TranscribeCreateFails(req) ==
  /\ FirstFile(req.uploadId) \notin {"missing", "empty"}
  /\ UNCHANGED vars

\* the row is created, then request.autoDetectLanguage raises AttributeError
\* while the arguments of add_task are evaluated: HTTP 500, no task
TranscribeAttributeError(req) ==
  /\ FirstFile(req.uploadId) \notin {"missing", "empty"}
  /\ nextId <= MaxSessions
  /\ req.autoDetect = "absent"
  /\ status' = [status EXCEPT ![nextId] = "pending"]
  /\ nextId' = nextId + 1
  /\ UNCHANGED <<settings, runs, transcriptRows, summaryRows, notPipeVars>>

TranscribeAccepted(req) ==
  /\ FirstFile(req.uploadId) \notin {"missing", "empty"}
  /\ nextId <= MaxSessions
  /\ req.autoDetect # "absent"
  /\ status' = [status EXCEPT ![nextId] = "pending"]
  /\ nextId' = nextId + 1
  /\ runs' = Append(runs, NewRun(HandedSessionId(nextId, req),
                                 FirstFile(req.uploadId), req, settings))
  /\ UNCHANGED <<settings, transcriptRows, summaryRows, notPipeVars>>

transcribe ==
  \E req \in TranscriptionRequest :
    \/ TranscribeNotFound(req)
    \/ TranscribeCreateFails(req)
    \/ TranscribeAttributeError(req)
    \/ TranscribeAccepted(req)

(***************************************************************************)
(* PATCH /sessions/{session_id}                                            *)
(***************************************************************************)
\* updates["status"] is set when update_data.status is not None
PatchedStatus(old, new) == IF new # "None" THEN new ELSE old

update_session ==
  \E sid \in SessionIds, new \in StatusValues \cup {"None"}, owner \in BOOLEAN :
    IF status[sid] = "none" \/ ~owner
    THEN UNCHANGED vars                       \* 404 Session not found
    ELSE /\ status' = [status EXCEPT ![sid] = PatchedStatus(status[sid], new)]
         /\ UNCHANGED <<settings, nextId, runs, transcriptRows, summaryRows, notPipeVars>>

(***************************************************************************)
(* process_transcription: one action per step of the coroutine.  Every     *)
(* database call may raise (dbOk = FALSE); a call that raises wrote        *)
(* nothing.                                                                *)
(***************************************************************************)
Run(r) == runs[r]

is_text_import(run) == Suffix(run.audio_path) = ".txt"

Route(run) ==
  IF is_text_import(run) THEN "text"
  ELSE IF run.auto_detect_language = "true" /\ run.provider = "auto" THEN "auto"
  ELSE "explicit"

\* the handler of `except Exception as e` is entered
Raise(run, why) == [run EXCEPT !.pc = "except", !.cause = why]

SetRun(r, run) == runs' = [runs EXCEPT ![r] = run]

\* db.session.update(where id = session_id, data = {"status": value})
WriteStatus(r, value, next) ==
  /\ status' = [status EXCEPT ![Run(r).session_id] = value]
  /\ SetRun(r, [Run(r) EXCEPT !.pc = next, !.wrote = Append(@, value)])

MarkProcessing(r) ==
  /\ r \in DOMAIN runs
  /\ Run(r).pc = "start"
  /\ \E dbOk \in BOOLEAN :
       IF dbOk
       THEN WriteStatus(r, "processing", "transcribe")
       ELSE SetRun(r, Raise(Run(r), "db")) /\ UNCHANGED status
  /\ UNCHANGED <<settings, nextId, transcriptRows, summaryRows, notPipeVars>>

\* settings.OPENAI_API_KEY or api_key
OpenAiKeyOr(cfg, api_key) == IF cfg.OPENAI_API_KEY # "none" THEN cfg.OPENAI_API_KEY ELSE api_key

\* transcribe_audio raises ValueError for a provider other than whisper and ivrit
SupportedProvider(p) == p \in {"whisper", "ivrit"}

\* lines 68-128: the transcription step of the three routes
TranscriptionStep(r) ==
  /\ r \in DOMAIN runs
  /\ Run(r).pc = "transcribe"
  /\ \E callOk \in BOOLEAN :
       LET run == Run(r) IN
       CASE Route(run) = "text" ->
              \* transcript_parser.parse_text_file(audio_path)
              IF callOk
              THEN SetRun(r, [run EXCEPT !.pc = "saveLanguage"])
              ELSE SetRun(r, Raise(run, "transcription"))
         [] Route(run) = "auto" ->
              \* openai_key is bound before the call
              LET bound == [run EXCEPT !.openai_key = OpenAiKeyOr(settings, run.api_key)] IN
              IF callOk
              THEN SetRun(r, [bound EXCEPT !.pc = "saveLanguage"])
              ELSE SetRun(r, Raise(bound, "transcription"))
         [] OTHER ->
              IF callOk /\ SupportedProvider(run.provider)
              THEN SetRun(r, [run EXCEPT !.pc = "refine"])
              ELSE SetRun(r, Raise(run, "transcription"))
  /\ UNCHANGED <<settings, status, nextId, transcriptRows, summaryRows, notPipeVars>>

\* db.session.update(data = {"detectedLanguage": ...}) of the text and auto routes
SaveLanguage(r) ==
  /\ r \in DOMAIN runs
  /\ Run(r).pc = "saveLanguage"
  /\ \E dbOk \in BOOLEAN :
       LET run == Run(r) IN
       IF ~dbOk THEN SetRun(r, Raise(run, "db"))
       ELSE IF Route(run) = "text"
       THEN SetRun(r, [run EXCEPT !.pc = "refine",
                                  !.openai_key = OpenAiKeyOr(settings, run.api_key)])
       ELSE SetRun(r, [run EXCEPT !.pc = "refine"])
  /\ UNCHANGED <<settings, status, nextId, transcriptRows, summaryRows, notPipeVars>>

\* lines 132-146: refine_transcript returns the original transcript on any
\* error of its own, so the step does not raise
RefineStep(r) ==
  /\ r \in DOMAIN runs
  /\ Run(r).pc = "refine"
  /\ LET run == Run(r) IN
     IF settings.ENABLE_TRANSCRIPT_REFINEMENT
     THEN SetRun(r, [run EXCEPT !.pc = "saveTranscript",
                                !.openai_key = settings.OPENAI_API_KEY])
     ELSE SetRun(r, [run EXCEPT !.pc = "saveTranscript"])
  /\ UNCHANGED <<settings, status, nextId, transcriptRows, summaryRows, notPipeVars>>

\* db.transcript.create and the db.transcriptsegment.create loop
SaveTranscript(r) ==
  /\ r \in DOMAIN runs
  /\ Run(r).pc = "saveTranscript"
  /\ \E dbOk \in BOOLEAN :
       IF dbOk
       THEN /\ transcriptRows' = [transcriptRows EXCEPT ![Run(r).session_id] = @ + 1]
            /\ SetRun(r, [Run(r) EXCEPT !.pc = "summarize"])
       ELSE /\ SetRun(r, Raise(Run(r), "db"))
            /\ UNCHANGED transcriptRows
  /\ UNCHANGED <<settings, status, nextId, summaryRows, notPipeVars>>

\* entity extraction started as soon as the summary is generated
EntitiesBeforeSummarySaved(run) == [run EXCEPT !.pc = "entities"]

\* the summary is persisted (lines 183-201) right after it is generated
AfterSummary(run) == [run EXCEPT !.pc = "saveSummary"]

\* summarization_service.generate_summary(..., api_key=openai_key, ...):
\* reading an unbound local raises UnboundLocalError before the call is made;
\* the OpenAI client raises when it is constructed without a key
SummarizeStep(r) ==
  /\ r \in DOMAIN runs
  /\ Run(r).pc = "summarize"
  /\ \E callOk \in BOOLEAN :
       LET run == Run(r) IN
       IF run.openai_key = "unbound" THEN SetRun(r, Raise(run, "unbound"))
       ELSE IF callOk /\ run.openai_key # "none"
       THEN SetRun(r, AfterSummary(run))
       ELSE SetRun(r, Raise(run, "summarization"))
  /\ UNCHANGED <<settings, status, nextId, transcriptRows, summaryRows, notPipeVars>>

\* db.summary.create and the db.actionitem.create loop
SaveSummary(r) ==
  /\ r \in DOMAIN runs
  /\ Run(r).pc = "saveSummary"
  /\ \E dbOk \in BOOLEAN :
       IF dbOk
       THEN /\ summaryRows' = [summaryRows EXCEPT ![Run(r).session_id] = @ + 1]
            /\ SetRun(r, [Run(r) EXCEPT !.pc = "entities"])
       ELSE /\ SetRun(r, Raise(Run(r), "db"))
            /\ UNCHANGED summaryRows
  /\ UNCHANGED <<settings, status, nextId, transcriptRows, notPipeVars>>

\* an entity block whose exception reaches the outer handler
EntityErrorEscalates(run) ==
  [run EXCEPT !.pc = "except", !.cause = "entities", !.entityFailed = TRUE]

\* where the run continues when the entity block (lines 206-300) raised
AfterEntityError(run) == [run EXCEPT !.pc = "complete", !.entityFailed = TRUE]

EntityStep(r) ==
  /\ r \in DOMAIN runs
  /\ Run(r).pc = "entities"
  /\ \E blockOk \in BOOLEAN :
       IF blockOk
       THEN SetRun(r, [Run(r) EXCEPT !.pc = "complete"])
       ELSE SetRun(r, AfterEntityError(Run(r)))
  /\ UNCHANGED <<settings, status, nextId, transcriptRows, summaryRows, notPipeVars>>

MarkCompleted(r) ==
  /\ r \in DOMAIN runs
  /\ Run(r).pc = "complete"
  /\ \E dbOk \in BOOLEAN :
       IF dbOk
       THEN WriteStatus(r, "completed", "billing")
       ELSE SetRun(r, Raise(Run(r), "db")) /\ UNCHANGED status
  /\ UNCHANGED <<settings, nextId, transcriptRows, summaryRows, notPipeVars>>

\* where the run continues when the billing block (lines 309-322) raised
AfterBillingError(run) == [run EXCEPT !.pc = "done", !.billingFailed = TRUE]

BillingStep(r) ==
  /\ r \in DOMAIN runs
  /\ Run(r).pc = "billing"
  /\ \E blockOk \in BOOLEAN :
       IF blockOk
       THEN SetRun(r, [Run(r) EXCEPT !.pc = "done"])
       ELSE SetRun(r, AfterBillingError(Run(r)))
  /\ UNCHANGED <<settings, status, nextId, transcriptRows, summaryRows, notPipeVars>>

\* lines 326-333: the write of "failed"; if it raises, the exception leaves
\* the background task
ExceptHandler(r) ==
  /\ r \in DOMAIN runs
  /\ Run(r).pc = "except"
  /\ \E dbOk \in BOOLEAN :
       IF dbOk
       THEN WriteStatus(r, "failed", "done")
       ELSE SetRun(r, [Run(r) EXCEPT !.pc = "crashed"]) /\ UNCHANGED status
  /\ UNCHANGED <<settings, nextId, transcriptRows, summaryRows, notPipeVars>>

RunIds == 1..MaxSessions

process_transcription ==
  \E r \in RunIds :
    \/ MarkProcessing(r)
    \/ TranscriptionStep(r)
    \/ SaveLanguage(r)
    \/ RefineStep(r)
    \/ SaveTranscript(r)
    \/ SummarizeStep(r)
    \/ SaveSummary(r)
    \/ EntityStep(r)
    \/ MarkCompleted(r)
    \/ BillingStep(r)
    \/ ExceptHandler(r)

Settings ==
  [ENABLE_TRANSCRIPT_REFINEMENT : BOOLEAN, OPENAI_API_KEY : {"none", "sk"}]

\* the defaults of class Settings, with OPENAI_API_KEY read from the environment
DefaultSettings ==
  [ENABLE_TRANSCRIPT_REFINEMENT |-> FALSE, OPENAI_API_KEY |-> "sk"]

\* an empty database
PipeInit ==
  /\ settings = DefaultSettings
  /\ status = [s \in SessionIds |-> "none"]
  /\ nextId = 1
  /\ runs = <<>>
  /\ transcriptRows = [s \in SessionIds |-> 0]
  /\ summaryRows = [s \in SessionIds |-> 0]

Init == PipeInit /\ ScratchIdle /\ RoutingIdle /\ WhisperIdle /\ TextIdle

Next ==
  \/ transcribe
  \/ update_session
  \/ process_transcription

Spec == Init /\ [][Next]_vars

\* one request under every configuration: the database has one id left to give
InitRun ==
  /\ settings \in Settings
  /\ status = [s \in SessionIds |-> "none"]
  /\ nextId = MaxSessions
  /\ runs = <<>>
  /\ transcriptRows = [s \in SessionIds |-> 0]
  /\ summaryRows = [s \in SessionIds |-> 0]
  /\ ScratchIdle /\ RoutingIdle /\ WhisperIdle /\ TextIdle

SpecRun == InitRun /\ [][Next]_vars

(***************************************************************************)
(* Properties of the pipeline.                                             *)
(***************************************************************************)
Range(f) == { f[i] : i \in DOMAIN f }

Last(q) == q[Len(q)]

AllowedTransitions ==
  { <<"none", "pending">>, <<"pending", "processing">>,
    <<"processing", "completed">>, <<"processing", "failed">> }

C2_FailedOnlyOnStepError ==
  \A r \in DOMAIN runs :
    /\ "failed" \in Range(runs[r].wrote)
         => runs[r].cause \in {"transcription", "summarization", "db"}
    /\ runs[r].pc \in {"except", "crashed"}
         => runs[r].cause \in {"transcription", "summarization", "db"}

\* C3: an exception of the entity block or of usage recording never moves the
\* session to "failed": after an entity failure the run goes on to the write
\* of "completed" (only that write failing can still fail the run), and a
\* billing failure ends the run with "completed" as its last status write.
C3_EnrichmentFailureNotFatal ==
  \A r \in DOMAIN runs :
    LET run == runs[r] IN
    /\ run.entityFailed =>
         /\ run.pc \in {"complete", "billing", "done"} \/ run.cause = "db"
         /\ run.pc \in {"billing", "done"} /\ run.cause = "none"
              => run.wrote = <<"processing", "completed">>
    /\ run.billingFailed =>
         /\ run.pc = "done"
         /\ run.cause = "none"
         /\ run.wrote = <<"processing", "completed">>

C3_Witness ==
  \E r \in DOMAIN runs :
    /\ runs[r].entityFailed
    /\ runs[r].billingFailed
    /\ runs[r].pc = "done"
    /\ status[runs[r].session_id] = "completed"

\* position of a step in the fixed order of process_transcription
Rank(pc) ==
  CASE pc = "start" -> 0
    [] pc = "transcribe" -> 1
    [] pc = "saveLanguage" -> 2
    [] pc = "refine" -> 3
    [] pc = "saveTranscript" -> 4
    [] pc = "summarize" -> 5
    [] pc = "saveSummary" -> 6
    [] pc = "entities" -> 7
    [] pc = "complete" -> 8
    [] pc = "billing" -> 9
    [] OTHER -> 10

\* the steps of run r that can be taken in the current state
EnabledSteps(r) ==
  { n \in 1..11 :
      CASE n = 1 -> ENABLED MarkProcessing(r)
        [] n = 2 -> ENABLED TranscriptionStep(r)
        [] n = 3 -> ENABLED SaveLanguage(r)
        [] n = 4 -> ENABLED RefineStep(r)
        [] n = 5 -> ENABLED SaveTranscript(r)
        [] n = 6 -> ENABLED SummarizeStep(r)
        [] n = 7 -> ENABLED SaveSummary(r)
        [] n = 8 -> ENABLED EntityStep(r)
        [] n = 9 -> ENABLED MarkCompleted(r)
        [] n = 10 -> ENABLED BillingStep(r)
        [] OTHER -> ENABLED ExceptHandler(r) }

\* what has happened before a run stands at a step
StepPreconditions ==
  \A r \in DOMAIN runs :
    LET run == runs[r]
        sid == runs[r].session_id IN
    /\ Cardinality(EnabledSteps(r)) <= 1
    /\ run.pc \in {"transcribe", "saveLanguage", "refine", "saveTranscript", "summarize",
                   "saveSummary", "entities", "complete", "billing"}
         => /\ Len(run.wrote) >= 1
            /\ run.wrote[1] = "processing"
    /\ run.pc \in {"summarize", "saveSummary"}
         => transcriptRows[sid] = 1 /\ summaryRows[sid] = 0
    /\ run.pc \in {"entities", "complete", "billing"}
         => transcriptRows[sid] = 1 /\ summaryRows[sid] = 1
    /\ run.pc \in {"start", "transcribe", "saveLanguage", "refine", "saveTranscript"}
         => transcriptRows[sid] = 0 /\ summaryRows[sid] = 0
    /\ run.pc = "billing" => Last(run.wrote) = "completed"
    /\ run.pc \in {"entities", "complete"} => run.wrote = <<"processing">>

\* a run moves forward through the fixed order, or into the exception handler
StepsInOrder ==
  \A r \in DOMAIN runs :
    runs'[r].pc # runs[r].pc =>
      \/ runs'[r].pc \in {"except", "crashed"} /\ runs[r].pc \notin {"done", "crashed", "billing"}
      \/ runs[r].pc = "except" /\ runs'[r].pc = "done"
      \/ runs[r].pc # "except" /\ Rank(runs'[r].pc) > Rank(runs[r].pc)

\* C4: the steps of one run happen one after another in the fixed order:
\* "processing" is written before the transcription step, transcription ends
\* before refinement, refinement before summarization, entity extraction
\* starts after the summary is persisted, usage recording after entity
\* extraction ended, and a run never has two steps to take at once.
C4_StepsSequential == [][StepsInOrder]_vars /\ []StepPreconditions

C4_Witness ==
  \E r \in DOMAIN runs :
    /\ runs[r].pc = "done"
    /\ runs[r].cause = "none"
    /\ settings.ENABLE_TRANSCRIPT_REFINEMENT
    /\ summaryRows[runs[r].session_id] = 1

\* C5: no session id is handed to two process_transcription runs, so the
\* status, transcript and summary of a session are written by one run only.
C5_OneRunPerSession ==
  /\ \A r1, r2 \in DOMAIN runs : r1 # r2 => runs[r1].session_id # runs[r2].session_id
  /\ \A r \in DOMAIN runs : status[runs[r].session_id] # "none"
  /\ \A s \in SessionIds : transcriptRows[s] <= 1 /\ summaryRows[s] <= 1

\* two requests that name the same uploadId, both runs past their first write
C5_Witness ==
  \E r1, r2 \in DOMAIN runs :
    /\ r1 # r2
    /\ runs[r1].audio_path = runs[r2].audio_path
    /\ runs[r1].wrote # <<>>
    /\ runs[r2].wrote # <<>>
    /\ transcriptRows[runs[r1].session_id] = 1
    /\ transcriptRows[runs[r2].session_id] = 1

(***************************************************************************)
(* WhisperTranscriber: transcribe / detect_language, the tenacity retry    *)
(* loop around _transcribe_with_retry, and _handle_api_error.              *)
(*                                                                         *)
(* The text of an exception is modelled by the keywords its lower-cased    *)
(* str() contains, which is all _handle_api_error reads of it.             *)
(***************************************************************************)
AuthKeywords == {"authentication", "api key", "unauthorized"}

RateKeywords == {"rate limit", "quota"}

NetworkKeywords == {"timeout", "connection"}

Keywords == AuthKeywords \cup RateKeywords \cup NetworkKeywords

ErrorTexts == SUBSET Keywords

\* a classifier that looks for the network keywords first
ClassifyNetworkFirst(text) ==
  IF text \cap NetworkKeywords # {} THEN "network"
  ELSE IF text \cap AuthKeywords # {} THEN "authentication"
  ELSE IF text \cap RateKeywords # {} THEN "rate_limit"
  ELSE "api"

\* the if/elif chain of _handle_api_error
Classify(text) ==
  IF text \cap AuthKeywords # {} THEN "authentication"
  ELSE IF text \cap RateKeywords # {} THEN "rate_limit"
  ELSE IF text \cap NetworkKeywords # {} THEN "network"
  ELSE "api"

\* the text of the exception _handle_api_error builds: a fixed prefix
\* ("OpenAI API authentication failed: ", "OpenAI API rate limit exceeded: ",
\* "Network error calling OpenAI API: ", "OpenAI API error: ") and the
\* original text
Message(kind, text) ==
  CASE kind = "authentication" -> {"authentication"} \cup text
    [] kind = "rate_limit"     -> {"rate limit"} \cup text
    [] OTHER                   -> text

handle_api_error(text) ==
  [kind |-> Classify(text), text |-> Message(Classify(text), text)]

\* a retry decorator that stops one attempt earlier
StopAfterTwo == 3 - 1

\* stop_after_attempt(3)
StopAfterAttempt == 3

\* wait_exponential(multiplier=1, min=4, max=10)
WaitMultiplier == 1
WaitMin == 4
WaitMax == 10

RECURSIVE Pow2(_)
Pow2(n) == IF n <= 0 THEN 1 ELSE 2 * Pow2(n - 1)

Min2(a, b) == IF a <= b THEN a ELSE b

Max2(a, b) == IF a >= b THEN a ELSE b

\* seconds tenacity sleeps after attempt number n
WaitExponential(n) == Max2(WaitMin, Min2(WaitMultiplier * Pow2(n - 1), WaitMax))

\* retry=retry_if_exception_type(APINetworkError)
RetryIf(e) == e.kind = "network"

\* without reraise=True tenacity raises RetryError, whose text names the
\* future and the class of the last exception
RaiseRetryError(last) == [kind |-> "retry_error", text |-> {}]

\* reraise=True: when the attempts are used up the last exception is raised
AfterStop(last) == last

WhisperOps == {"transcribe", "detect_language"}

\* a call has been made and its first attempt is about to run
WhisperInit ==
  call \in [pc : {"attempting"}, op : WhisperOps, file : {"exists", "missing"},
            attempt_number : {1}, kinds : {<<>>}, texts : {<<>>}, slept : {0},
            result : {"none"}, resultAttempt : {0}]

\* the exception `e` that reaches `except Exception as e` of transcribe /
\* detect_language is classified once more and raised to the caller
RaiseToCaller(c, e) ==
  [c EXCEPT !.pc = "raised", !.result = handle_api_error(e.text).kind]

\* the endpoint call of this attempt returns a transcript
AttemptSucceeds ==
  /\ call.pc = "attempting"
  /\ call.file = "exists"
  /\ call' = [call EXCEPT !.pc = "returned",
                          !.kinds = Append(@, "ok"),
                          !.texts = Append(@, {}),
                          !.result = "ok",
                          !.resultAttempt = call.attempt_number]
  /\ UNCHANGED <<pipeVars, textVars, scratchVars, routing>>

\* what _transcribe_with_retry and the decorator do with an exception whose
\* text is `text`
AttemptRaised(text) ==
  LET e == handle_api_error(text)
      c == [call EXCEPT !.kinds = Append(@, e.kind), !.texts = Append(@, text)] IN
  IF RetryIf(e)
  THEN IF call.attempt_number < StopAfterAttempt
       THEN call' = [c EXCEPT !.pc = "waiting",
                              !.slept = @ + WaitExponential(call.attempt_number)]
       ELSE call' = RaiseToCaller(c, AfterStop(e))
  ELSE call' = RaiseToCaller(c, e)

\* the endpoint call of this attempt raises
AttemptFails ==
  /\ call.pc = "attempting"
  /\ call.file = "exists"
  /\ \E text \in ErrorTexts : AttemptRaised(text)
  /\ UNCHANGED <<pipeVars, textVars, scratchVars, routing>>

\* open(audio_path, 'rb') raises FileNotFoundError ("No such file or directory")
OpenFails ==
  /\ call.pc = "attempting"
  /\ call.file = "missing"
  /\ AttemptRaised({})
  /\ UNCHANGED <<pipeVars, textVars, scratchVars, routing>>

\* the sleep between two attempts is over
RetryAfterWait ==
  /\ call.pc = "waiting"
  /\ call' = [call EXCEPT !.pc = "attempting", !.attempt_number = @ + 1]
  /\ UNCHANGED <<pipeVars, textVars, scratchVars, routing>>

NextWhisper ==
  \/ AttemptSucceeds
  \/ AttemptFails
  \/ OpenFails
  \/ RetryAfterWait

InitWhisper == PipeInit /\ ScratchIdle /\ RoutingIdle /\ WhisperInit /\ TextIdle

SpecWhisper == InitWhisper /\ [][NextWhisper]_vars

Finished(c) == c.pc \in {"returned", "raised"}

\* C8: a call whose first two attempts fail with NetworkError makes a third
\* attempt, and when that attempt succeeds the caller gets its result.
C8_ThirdAttemptResult ==
  (Finished(call) /\ Len(call.kinds) >= 2
     /\ call.kinds[1] = "network" /\ call.kinds[2] = "network")
  => /\ Len(call.kinds) = 3
     /\ call.kinds[3] = "ok"
          => call.pc = "returned" /\ call.result = "ok" /\ call.resultAttempt = 3

C8_Witness ==
  /\ call.pc = "returned"
  /\ call.kinds = <<"network", "network", "ok">>
  /\ call.slept = 8

NotRetried == {"authentication", "rate_limit", "api"}

\* C9: an attempt that fails with an authentication, rate-limit or generic
\* API error is the last attempt of the call and the caller receives an error
\* of that kind; a text with an authentication (rate-limit) keyword is
\* classified authentication (rate-limit) whatever network keyword it holds.
C9_NoRetryOfOtherErrors ==
  \A i \in DOMAIN call.kinds :
    /\ call.kinds[i] \in NotRetried
         => /\ i = Len(call.kinds)
            /\ call.pc = "raised"
            /\ call.result = call.kinds[i]
            /\ call.attempt_number = i
    /\ call.texts[i] \cap AuthKeywords # {} => call.kinds[i] = "authentication"
    /\ (call.texts[i] \cap AuthKeywords = {} /\ call.texts[i] \cap RateKeywords # {})
         => call.kinds[i] = "rate_limit"

C9_Witness ==
  /\ call.pc = "raised"
  /\ Len(call.kinds) = 1
  /\ call.kinds[1] = "authentication"
  /\ "timeout" \in call.texts[1]
  /\ call.result = "authentication"

\* C10: a call makes at most 3 attempts, and after three attempts that failed
\* with NetworkError the caller receives a NetworkError.
C10_AtMostThreeAttempts ==
  /\ Len(call.kinds) <= 3
  /\ call.pc # "idle" => call.attempt_number <= 3
  /\ call.kinds = <<"network", "network", "network">>
       => call.pc = "raised" /\ call.result = "network"

C10_Witness ==
  /\ call.pc = "raised"
  /\ call.kinds = <<"network", "network", "network">>
  /\ call.op = "detect_language"

(***************************************************************************)
(* TranscriptionService.transcribe_with_auto_routing.  None is "None"; a   *)
(* value is true in a condition unless it is None or the empty string.     *)
(***************************************************************************)
Truthy(v) == v \notin {"None", ""}

\* LANGUAGE_PROVIDER_MAP.get(language, "whisper")
get_provider_for_language(language) ==
  CASE language = "he" -> "ivrit"
    [] language = "en" -> "whisper"
    [] OTHER           -> "whisper"

get_model_for_provider(provider) ==
  IF provider = "ivrit" THEN "ivrit-ai/whisper-large-v3-turbo-ct2" ELSE "whisper-1"

Selection(p, m, k, e) == [provider |-> p, model |-> m, api_key |-> k, endpoint_id |-> e]

\* a router that takes the provider of the language map as it is
RouteWithoutFallback(language, openai_api_key, ivrit_api_key, ivrit_endpoint_id) ==
  LET provider == get_provider_for_language(language)
      model == get_model_for_provider(provider) IN
  IF provider = "ivrit"
  THEN Selection(provider, model, ivrit_api_key, ivrit_endpoint_id)
  ELSE Selection(provider, model, openai_api_key, "None")

\* steps 2 and 3 of transcribe_with_auto_routing
RouteSelection(language, openai_api_key, ivrit_api_key, ivrit_endpoint_id) ==
  LET provider == get_provider_for_language(language)
      model == get_model_for_provider(provider) IN
  IF provider = "ivrit" /\ Truthy(ivrit_api_key) /\ Truthy(ivrit_endpoint_id)
  THEN Selection(provider, model, ivrit_api_key, ivrit_endpoint_id)
  ELSE IF provider = "ivrit" /\ (~Truthy(ivrit_api_key) \/ ~Truthy(ivrit_endpoint_id))
  THEN Selection("whisper", "whisper-1", openai_api_key, "None")
  ELSE Selection(provider, model, openai_api_key, "None")

\* the transcriber transcribe_audio constructs, or the error it raises
MakeTranscriber(sel, language) ==
  CASE sel.provider = "whisper" ->
         [class |-> "WhisperTranscriber", api_key |-> sel.api_key,
          endpoint_id |-> "None", model |-> sel.model, language |-> language]
    [] sel.provider = "ivrit" ->
         IF ~Truthy(sel.endpoint_id)
         THEN [class |-> "ValueError"]
         ELSE [class |-> "IvritTranscriber", api_key |-> sel.api_key,
               endpoint_id |-> sel.endpoint_id, model |-> sel.model,
               language |-> IF Truthy(language) THEN language ELSE "he"]
    [] OTHER -> [class |-> "ValueError"]

\* WhisperTranscriber.validate_config and IvritTranscriber.validate_config
validate_config(t) ==
  CASE t.class = "WhisperTranscriber" -> Truthy(t.api_key)
    [] t.class = "IvritTranscriber" -> Truthy(t.api_key) /\ Truthy(t.endpoint_id)
    [] OTHER -> FALSE

\* language tags detect_language may return
Languages == {"he", "en", "fr", "hebrew", "unknown"}

NoSelection == Selection("none", "none", "none", "none")

RoutingInit ==
  routing \in [pc : {"detecting"},
               openai_api_key : {"", "sk-openai"},
               ivrit_api_key : {"None", "", "rpa_ivrit"},
               ivrit_endpoint_id : {"None", "", "endpoint-1"},
               language : {"none"},
               selected : {NoSelection},
               transcriber : {[class |-> "none"]},
               result : {"none"}]

\* detect_language raises: the exception leaves transcribe_with_auto_routing
DetectLanguageRaises ==
  /\ routing.pc = "detecting"
  /\ routing' = [routing EXCEPT !.pc = "raised", !.result = "detect_language"]
  /\ UNCHANGED <<pipeVars, textVars, scratchVars, call>>

\* detect_language returns: the provider is selected and transcribe_audio
\* constructs and validates the transcriber before it awaits the endpoint
DetectLanguageReturns ==
  /\ routing.pc = "detecting"
  /\ \E language \in Languages :
       LET sel == RouteSelection(language, routing.openai_api_key,
                                 routing.ivrit_api_key, routing.ivrit_endpoint_id)
           t == MakeTranscriber(sel, language)
           r == [routing EXCEPT !.language = language, !.selected = sel,
                                !.transcriber = t] IN
       IF t.class = "ValueError"
       THEN routing' = [r EXCEPT !.pc = "raised", !.result = "ValueError"]
       ELSE IF ~validate_config(t)
       THEN routing' = [r EXCEPT !.pc = "raised", !.result = "ConfigurationError"]
       ELSE routing' = [r EXCEPT !.pc = "transcribing"]
  /\ UNCHANGED <<pipeVars, textVars, scratchVars, call>>

\* transcriber.transcribe returns or raises
RoutedTranscribeEnds ==
  /\ routing.pc = "transcribing"
  /\ \E ok \in BOOLEAN :
       routing' = IF ok THEN [routing EXCEPT !.pc = "returned", !.result = "transcript"]
                  ELSE [routing EXCEPT !.pc = "raised", !.result = "APIError"]
  /\ UNCHANGED <<pipeVars, textVars, scratchVars, call>>

NextRouting ==
  \/ DetectLanguageRaises
  \/ DetectLanguageReturns
  \/ RoutedTranscribeEnds

InitRouting == PipeInit /\ ScratchIdle /\ RoutingInit /\ WhisperIdle /\ TextIdle

SpecRouting == InitRouting /\ [][NextRouting]_vars

\* C7: the specialized provider is selected exactly when the detected
\* language is "he" and both Ivrit credentials are non-empty; in every other
\* case (whisper, whisper-1) with the OpenAI key and no endpoint id; no Ivrit
\* transcriber is constructed with a missing key or endpoint id.
C7_RoutingSelection ==
  routing.language # "none" =>
    /\ IF /\ routing.language = "he"
          /\ routing.ivrit_api_key \notin {"None", ""}
          /\ routing.ivrit_endpoint_id \notin {"None", ""}
       THEN routing.selected =
              Selection("ivrit", "ivrit-ai/whisper-large-v3-turbo-ct2",
                        routing.ivrit_api_key, routing.ivrit_endpoint_id)
       ELSE routing.selected =
              Selection("whisper", "whisper-1", routing.openai_api_key, "None")
    /\ routing.transcriber.class # "ValueError"
    /\ routing.transcriber.class = "IvritTranscriber"
         => /\ routing.transcriber.api_key \notin {"None", ""}
            /\ routing.transcriber.endpoint_id \notin {"None", ""}

\* Hebrew detected with the Ivrit endpoint id missing: Whisper is used
C7_Witness ==
  /\ routing.language = "he"
  /\ routing.ivrit_api_key = "rpa_ivrit"
  /\ routing.ivrit_endpoint_id = "None"
  /\ routing.selected.provider = "whisper"
  /\ routing.transcriber.class = "WhisperTranscriber"
  /\ routing.pc = "returned"

(***************************************************************************)
(* Concurrent TranscriptionService.transcribe_audio calls on one event     *)
(* loop.  A coroutine runs until it awaits: AudioProcessor.process, the    *)
(* construction of the transcriber and AudioProcessor.cleanup do not       *)
(* await; the Whisper endpoint call and the sleep between two attempts do; *)
(* IvritTranscriber.transcribe holds no await, so it runs to its end.      *)
(***************************************************************************)
UploadDirs == {"u1", "u2"}

\* the input paths <UPLOAD_DIR>/<dir>/<stem>.wav
InputPaths == [dir : UploadDirs, stem : Stems]

\* the files under UPLOAD_DIR: u2/meeting.wav is a zero-byte file
InputFile(path) ==
  IF path.dir = "u2" /\ path.stem = "meeting" THEN "empty" ELSE "audio"

\* AudioValidator.validate: the file exists, is a file and is not empty
ValidInput(path) == InputFile(path) = "audio"

\* output_path = temp_dir / f"{input_path.stem}_processed.wav"
OutputName(path) == path.stem


\* AudioProcessor.cleanup(processed_path) when processed_audio != audio_path:
\* unlink the file if it exists
Cleanup(files, job) ==
  IF job.processed = "scratch"
  THEN [files EXCEPT ![OutputName(job.input)] = Absent]
  ELSE files

\* open(audio_path, 'rb') of _transcribe_with_retry: what the file holds
Opened(files, job) ==
  IF job.processed = "scratch" THEN files[OutputName(job.input)] ELSE job.input

ScratchInit ==
  /\ pydub \in BOOLEAN
  /\ scratch = [n \in ScratchNames |-> Absent]
  /\ jobs = [j \in JobIds |-> IdleJob]

\* AudioProcessor.process raises AudioFileError; processed_audio is not bound,
\* so the handler of transcribe_audio cleans nothing
ProcessFails(j) ==
  /\ jobs[j].pc = "idle"
  /\ \E input \in InputPaths :
       /\ ~ValidInput(input)
       /\ jobs' = [jobs EXCEPT ![j] = [pc |-> "failed", input |-> input,
                                       provider |-> "none", processed |-> "none",
                                       opened |-> NoPath, attempt |-> 0]]
  /\ UNCHANGED <<pipeVars, textVars, pydub, scratch, routing, call>>

\* transcribe_audio with the Whisper provider, up to the first await: the
\* input is processed, the scratch file opened and the request sent
WhisperJobStarts(j) ==
  /\ jobs[j].pc = "idle"
  /\ \E input \in InputPaths :
       /\ ValidInput(input)
       /\ LET files == IF pydub THEN [scratch EXCEPT ![OutputName(input)] = input]
                       ELSE scratch
              job == [pc |-> "calling", input |-> input, provider |-> "whisper",
                      processed |-> IF pydub THEN "scratch" ELSE "input",
                      opened |-> NoPath, attempt |-> 1] IN
          /\ scratch' = files
          /\ jobs' = [jobs EXCEPT ![j] = [job EXCEPT !.opened = Opened(files, job)]]
  /\ UNCHANGED <<pipeVars, textVars, pydub, routing, call>>

\* transcribe_audio with the Ivrit provider: process, transcribe, label and
\* cleanup run without a suspension
IvritJobRuns(j) ==
  /\ jobs[j].pc = "idle"
  /\ \E input \in InputPaths, ok \in BOOLEAN :
       /\ ValidInput(input)
       /\ LET files == IF pydub THEN [scratch EXCEPT ![OutputName(input)] = input]
                       ELSE scratch
              job == [pc |-> IF ok THEN "done" ELSE "failed", input |-> input,
                      provider |-> "ivrit",
                      processed |-> IF pydub THEN "scratch" ELSE "input",
                      opened |-> NoPath, attempt |-> 1] IN
          /\ scratch' = Cleanup(files, job)
          /\ jobs' = [jobs EXCEPT ![j] = [job EXCEPT !.opened = Opened(files, job)]]
  /\ UNCHANGED <<pipeVars, textVars, pydub, routing, call>>

\* the endpoint call returns the transcript: label, cleanup, return
CallReturns(j) ==
  /\ jobs[j].pc = "calling"
  /\ scratch' = Cleanup(scratch, jobs[j])
  /\ jobs' = [jobs EXCEPT ![j].pc = "done"]
  /\ UNCHANGED <<pipeVars, textVars, pydub, routing, call>>

\* the endpoint call raises an error that is not retried, or the third
\* NetworkError: the handler of transcribe_audio cleans up and re-raises
CallRaises(j) ==
  /\ jobs[j].pc = "calling"
  /\ scratch' = Cleanup(scratch, jobs[j])
  /\ jobs' = [jobs EXCEPT ![j].pc = "failed"]
  /\ UNCHANGED <<pipeVars, textVars, pydub, routing, call>>

\* the endpoint call raises a NetworkError and tenacity sleeps
CallRetries(j) ==
  /\ jobs[j].pc = "calling"
  /\ jobs[j].attempt < StopAfterAttempt
  /\ jobs' = [jobs EXCEPT ![j].pc = "waiting"]
  /\ UNCHANGED <<pipeVars, textVars, pydub, scratch, routing, call>>

\* the next attempt opens the file again; FileNotFoundError is classified
\* APIError and ends the call
NextAttempt(j) ==
  /\ jobs[j].pc = "waiting"
  /\ IF Opened(scratch, jobs[j]) = Absent
     THEN /\ scratch' = Cleanup(scratch, jobs[j])
          /\ jobs' = [jobs EXCEPT ![j].pc = "failed", ![j].opened = Absent,
                                  ![j].attempt = @ + 1]
     ELSE /\ scratch' = scratch
          /\ jobs' = [jobs EXCEPT ![j].pc = "calling",
                                  ![j].opened = Opened(scratch, jobs[j]),
                                  ![j].attempt = @ + 1]
  /\ UNCHANGED <<pipeVars, textVars, pydub, routing, call>>

transcribe_audio ==
  \E j \in JobIds :
    \/ ProcessFails(j)
    \/ WhisperJobStarts(j)
    \/ IvritJobRuns(j)
    \/ CallReturns(j)
    \/ CallRaises(j)
    \/ CallRetries(j)
    \/ NextAttempt(j)

InitScratch == PipeInit /\ ScratchInit /\ RoutingIdle /\ WhisperIdle /\ TextIdle

SpecScratch == InitScratch /\ [][transcribe_audio]_vars

\* C6: with the audio backend available, while a run's provider call is in
\* progress its scratch file exists and holds the audio produced from that
\* run's own input, and every attempt of the call opened such a file.
C6_ScratchFileIsOwn ==
  \A j \in JobIds :
    (pydub /\ jobs[j].pc \in {"calling", "waiting"})
      => /\ scratch[OutputName(jobs[j].input)] = jobs[j].input
         /\ jobs[j].opened = jobs[j].input

(***************************************************************************)
(* Transcripts (lib/utils/models.py) and the values they hold.             *)
(*                                                                         *)
(* A str is a sequence of tokens: a word (a run of characters other than   *)
(* white space and ':'), the token " " or the token ":".  A float is an    *)
(* exact fraction num/den in lowest terms with den > 0.                    *)
(***************************************************************************)
\* most segments of a transcript
MaxSegments == 3
\* most names of a participant list
MaxParticipants == 2
\* most lines of a model reply
MaxReplyLines == 2

SeqUpTo(S, n) == UNION {[1..k -> S] : k \in 0..n}

RECURSIVE GCD(_, _)
GCD(a, b) == IF b = 0 THEN a ELSE GCD(b, a % b)

Abs(n) == IF n < 0 THEN -n ELSE n

Frac(n, d) == LET g == GCD(Abs(n), d) IN [num |-> n \div g, den |-> d \div g]

Seconds(n) == [num |-> n, den |-> 1]

TimesInt(k, t) == Frac(k * t.num, t.den)

DivInt(t, k) == Frac(t.num, t.den * k)

Plus(a, b) == Frac(a.num * b.den + b.num * a.den, a.den * b.den)

Leq(a, b) == a.num * b.den <= b.num * a.den

TranscriptSegment(speaker, text, start_time, end_time) ==
  [speaker |-> speaker, text |-> text,
   start_time |-> start_time, end_time |-> end_time]

MakeResult(segs, language, metadata) ==
  [segments |-> segs, language |-> language, metadata |-> metadata]

Unknown == <<"Unknown">>

IsSpace(tok) == tok \in {" ", "\t", "\n"}

\* str.lstrip(), str.rstrip(), str.strip()
RECURSIVE LStrip(_)
LStrip(s) == IF s # <<>> /\ IsSpace(Head(s)) THEN LStrip(Tail(s)) ELSE s

RECURSIVE RStrip(_)
RStrip(s) ==
  IF s # <<>> /\ IsSpace(s[Len(s)]) THEN RStrip(SubSeq(s, 1, Len(s) - 1)) ELSE s

Strip(s) == LStrip(RStrip(s))

\* position of the first token of s that is in T, 0 when there is none
FirstIndex(s, T) ==
  IF \E i \in 1..Len(s) : s[i] \in T
    THEN CHOOSE i \in 1..Len(s) : s[i] \in T /\ \A j \in 1..(i - 1) : s[j] \notin T
    ELSE 0

(***************************************************************************)
(* SpeakerLabeler.label_speakers (src/diarization/speaker_labeler.py).     *)
(***************************************************************************)
\* the default name when there are no participants: f"Speaker {(idx % 3) + 1}"
Decimal(n) == <<"0", "1", "2", "3", "4", "5", "6", "7", "8", "9">>[n + 1]

DefaultSpeaker(idx) == <<"Speaker", " ", Decimal((idx % 3) + 1)>>

\* a labeler that gives one name to each pair of neighbouring segments
SpeakerNamePairs(participants, idx, segment) ==
  IF participants # <<>>
    THEN participants[((idx \div 2) % Len(participants)) + 1]
    ELSE DefaultSpeaker(idx)

\* lines 38-42; idx is the 0-based index of enumerate
SpeakerName(participants, idx, segment) ==
  IF participants # <<>>
    THEN participants[(idx % Len(participants)) + 1]
    ELSE DefaultSpeaker(idx)

label_speakers(participants, transcript) ==
  MakeResult(
    [i \in 1..Len(transcript.segments) |->
       LET segment == transcript.segments[i] IN
         TranscriptSegment(SpeakerName(participants, i - 1, segment),
                           segment.text, segment.start_time, segment.end_time)],
    transcript.language, transcript.metadata)

(***************************************************************************)
(* What the providers return (src/transcription/whisper.py, ivrit.py).     *)
(***************************************************************************)
WhisperResult(text, language) ==
  MakeResult(<<TranscriptSegment(Unknown, text, Seconds(0), Seconds(0))>>,
             language, [provider |-> "whisper"])

\* seg.speakers is a list; a missing, None or empty list gives 'Unknown'
IvritSegment(seg) ==
  TranscriptSegment(IF seg.speakers # <<>> THEN seg.speakers[1] ELSE Unknown,
                    Strip(seg.text), seg.start, seg.end)

IvritResult(raw, language) ==
  MakeResult([i \in 1..Len(raw) |-> IvritSegment(raw[i])],
             language, [provider |-> "ivrit"])

(***************************************************************************)
(* _label_speakers of the command line program (src/main.py).              *)
(***************************************************************************)
\* the words that end in '.', '!' or '?'
EndsSentence(tok) == tok \in {"Hi.", "Bye.", "Ok!", "Why?"}

\* re.split(r'(?<=[.!?])\s+', text)
RECURSIVE SplitSentences(_)
SplitSentences(s) ==
  LET Cut == {i \in 2..Len(s) : IsSpace(s[i]) /\ EndsSentence(s[i - 1])}
  IN IF Cut = {} THEN <<s>>
     ELSE LET i == CHOOSE c \in Cut : \A d \in Cut : c <= d
          IN <<SubSeq(s, 1, i - 1)>> \o SplitSentences(LStrip(SubSeq(s, i, Len(s))))

\* the 0-based indices of the sentences that are not blank
Spoken(sentences) ==
  SelectSeq([i \in 1..Len(sentences) |-> i - 1],
            LAMBDA i : Strip(sentences[i + 1]) # <<>>)

\* the call as a whole: what the object passed in holds afterwards, what is
\* returned, and whether the call raised (participants[i % 0])
cli_label_speakers(transcript, participants) ==
  IF Len(transcript.segments) # 1
    THEN [raised |-> FALSE, passed |-> transcript, result |-> transcript]
    ELSE
      LET sentences == SplitSentences(transcript.segments[1].text)
          spoken == Spoken(sentences)
          new_segments ==
            [k \in 1..Len(spoken) |->
               TranscriptSegment(participants[(spoken[k] % Len(participants)) + 1],
                                 Strip(sentences[spoken[k] + 1]),
                                 Seconds(0), Seconds(0))]
          relabeled == [transcript EXCEPT !.segments = new_segments]
      IN IF spoken # <<>> /\ participants = <<>>
           THEN [raised |-> TRUE, passed |-> transcript, result |-> transcript]
           ELSE [raised |-> FALSE, passed |-> relabeled, result |-> relabeled]

(***************************************************************************)
(* TranscriptRefinementService (app/services/refinement.py).               *)
(***************************************************************************)
\* a service that takes any context of one character or more as given
ContextNotEmpty(context) == context # <<>>

\* line 50: not (not context or not context.strip())
ContextGiven(context) == context # <<>> /\ Strip(context) # <<>>

Blank(line) == Strip(line) = <<>>

\* str.strip() of a text given as its lines, then str.split('\n')
RECURSIVE DropBlankHead(_)
DropBlankHead(lines) ==
  IF lines # <<>> /\ Blank(Head(lines)) THEN DropBlankHead(Tail(lines)) ELSE lines

RECURSIVE DropBlankTail(_)
DropBlankTail(lines) ==
  IF lines # <<>> /\ Blank(lines[Len(lines)])
    THEN DropBlankTail(SubSeq(lines, 1, Len(lines) - 1))
    ELSE lines

StripText(lines) ==
  LET kept == DropBlankTail(DropBlankHead(lines))
  IN IF kept = <<>> THEN << <<>> >>
     ELSE [i \in 1..Len(kept) |->
             IF i = 1 /\ i = Len(kept) THEN Strip(kept[i])
             ELSE IF i = 1 THEN LStrip(kept[i])
             ELSE IF i = Len(kept) THEN RStrip(kept[i])
             ELSE kept[i]]

\* re.match(r'^([^:]+):\s*(.+)$', line) on a stripped line
Colon(line) == FirstIndex(line, {":"})

LineMatches(line) == Colon(line) > 1 /\ Colon(line) < Len(line)

\* group(2): \s* takes the white space after the colon, giving back one
\* character when nothing else is left for (.+)
Group2(line) ==
  LET rest == SubSeq(line, Colon(line) + 1, Len(line))
  IN IF LStrip(rest) # <<>> THEN LStrip(rest) ELSE <<rest[Len(rest)]>>

\* lines 204-206
EstimatedEnd(idx, segment_duration) == TimesInt(idx + 1, segment_duration)

\* a parser that returns what it has parsed, also when that is nothing
ParsedOnly(refined_segments, original_segments) == refined_segments

\* lines 220-225
ParsedOrOriginal(refined_segments, original_segments) ==
  IF refined_segments = <<>> THEN original_segments ELSE refined_segments

parse_refined_transcript(refined_text, original_segments) ==
  LET lines == StripText(refined_text)
      total_duration ==
        IF original_segments # <<>>
          THEN original_segments[Len(original_segments)].end_time
          ELSE Seconds(0)
      segment_duration == DivInt(total_duration, Len(lines))
      matched == SelectSeq([i \in 1..Len(lines) |-> i - 1],
                           LAMBDA idx : LineMatches(Strip(lines[idx + 1])))
      refined_segments ==
        [k \in 1..Len(matched) |->
           LET idx == matched[k]
               line == Strip(lines[idx + 1])
           IN TranscriptSegment(Strip(SubSeq(line, 1, Colon(line) - 1)),
                                Strip(Group2(line)),
                                TimesInt(idx, segment_duration),
                                EstimatedEnd(idx, segment_duration))]
  IN ParsedOrOriginal(refined_segments, original_segments)

\* lines 70-82: what refine_transcript returns for a reply
Refined(transcript, reply) ==
  MakeResult(parse_refined_transcript(reply, transcript.segments),
             transcript.language, transcript.metadata)

(***************************************************************************)
(* SpecTransform: one call of a labeling or refinement operation.          *)
(*   passed   what the TranscriptResult object given to the call holds     *)
(*   before   what it held when the call was made                          *)
(*   result   what the call returned                                       *)
(***************************************************************************)
Names == {<<"Alice">>, <<"Bob">>}

ParticipantLists == SeqUpTo(Names, MaxParticipants)

SegmentPool ==
  { TranscriptSegment(Unknown, <<"Hello">>, Seconds(0), Seconds(0)),
    TranscriptSegment(<<"SPEAKER_00">>, <<"World">>, Seconds(0), Seconds(4)),
    TranscriptSegment(Unknown, <<"Hi.", " ", "Bye.">>, Seconds(4), Seconds(6)) }

Transcripts ==
  { MakeResult(segs, language, [provider |-> "whisper"]) :
      segs \in SeqUpTo(SegmentPool, MaxSegments), language \in {"he", "en"} }

\* the segments of an Ivrit reply
IvritPool ==
  { [speakers |-> <<>>, text |-> <<" ", "shalom">>,
     start |-> Seconds(0), end |-> Seconds(2)],
    [speakers |-> <<<<"SPEAKER_00">>>>, text |-> <<"ken">>,
     start |-> Seconds(2), end |-> Seconds(3)],
    [speakers |-> <<<<"SPEAKER_01">>, <<"SPEAKER_00">>>>, text |-> <<"lo">>,
     start |-> Seconds(3), end |-> Seconds(5)],
    [speakers |-> <<>>, text |-> <<"toda">>,
     start |-> Seconds(5), end |-> Seconds(3)] }

ProviderResults ==
  { WhisperResult(text, "en") : text \in {<<"Hello">>, <<"Hi.", " ", "Bye.">>} }
    \cup { IvritResult(raw, "he") : raw \in SeqUpTo(IvritPool, MaxSegments) }

Contexts == {<<>>, <<" ">>, <<"standup">>, <<" ", "standup">>}

\* the lines a model reply is made of
ReplyLines ==
  { <<>>, <<" ">>, <<"Hello">>, <<":", "Hello">>, <<"Tom", ":">>,
    <<"Tom", ":", " ", "Hello">>, <<" ", "Tom", ":", "Hello", " ">>,
    <<"Tom", ":", ":">> }

Replies == UNION {[1..k -> ReplyLines] : k \in 1..MaxReplyLines}

TransformOps ==
  {"label_speakers", "transcribe_audio", "_label_speakers", "refine_transcript"}

Called(op, transcript, participants, context) ==
  [pc |-> "called", op |-> op, passed |-> transcript, before |-> transcript,
   participants |-> participants, context |-> context, reply |-> <<>>,
   outcome |-> "none", calls |-> 0, raised |-> FALSE, result |-> transcript]

TransformInit ==
  transform \in
    { Called("label_speakers", t, P, <<>>) :
        t \in Transcripts, P \in ParticipantLists }
    \cup { Called("transcribe_audio", t, P, <<>>) :
        t \in ProviderResults, P \in ParticipantLists }
    \cup { Called("_label_speakers", t, P, <<>>) :
        t \in Transcripts, P \in ParticipantLists }
    \cup { Called("refine_transcript", t, <<>>, c) :
        t \in Transcripts, c \in Contexts }

Returned(result) ==
  transform' = [transform EXCEPT !.pc = "returned", !.result = result]

notTransformVars ==
  <<pipeVars, scratchVars, routing, call, segments, summary, extraction,
    appVars>>

LabelSpeakersReturns ==
  /\ transform.pc = "called" /\ transform.op = "label_speakers"
  /\ Returned(label_speakers(transform.participants, transform.passed))
  /\ UNCHANGED notTransformVars

\* transcribe_audio after the provider has returned transcript_result
TranscribeAudioLabels ==
  /\ transform.pc = "called" /\ transform.op = "transcribe_audio"
  /\ IF transform.participants # <<>>
       THEN Returned(label_speakers(transform.participants, transform.passed))
       ELSE Returned(transform.passed)
  /\ UNCHANGED notTransformVars

CliLabelSpeakers ==
  /\ transform.pc = "called" /\ transform.op = "_label_speakers"
  /\ LET out == cli_label_speakers(transform.passed, transform.participants)
     IN transform' = [transform EXCEPT !.pc = "returned",
                                       !.passed = out.passed,
                                       !.result = out.result,
                                       !.raised = out.raised]
  /\ UNCHANGED notTransformVars

RefineSkipped ==
  /\ transform.pc = "called" /\ transform.op = "refine_transcript"
  /\ ~ContextGiven(transform.context)
  /\ transform' = [transform EXCEPT !.pc = "returned", !.outcome = "skipped",
                                    !.result = transform.passed]
  /\ UNCHANGED notTransformVars

\* AsyncOpenAI(api_key=None) raises before any request is made
RefineClientFails ==
  /\ transform.pc = "called" /\ transform.op = "refine_transcript"
  /\ ContextGiven(transform.context)
  /\ transform' = [transform EXCEPT !.pc = "returned", !.outcome = "no_client",
                                    !.result = transform.passed]
  /\ UNCHANGED notTransformVars

\* the request raises, or the reply has no content (None.strip())
RefineModelRaises ==
  /\ transform.pc = "called" /\ transform.op = "refine_transcript"
  /\ ContextGiven(transform.context)
  /\ transform' = [transform EXCEPT !.pc = "returned", !.outcome = "raised",
                                    !.calls = 1,
                                    !.result = transform.passed]
  /\ UNCHANGED notTransformVars

RefineModelReplies ==
  /\ transform.pc = "called" /\ transform.op = "refine_transcript"
  /\ ContextGiven(transform.context)
  /\ \E reply \in Replies :
       transform' =
         [transform EXCEPT
            !.pc = "returned", !.outcome = "replied", !.calls = 1,
            !.reply = reply,
            !.result = Refined(transform.passed, reply)]
  /\ UNCHANGED notTransformVars

NextTransform ==
  \/ LabelSpeakersReturns
  \/ TranscribeAudioLabels
  \/ CliLabelSpeakers
  \/ RefineSkipped
  \/ RefineClientFails
  \/ RefineModelRaises
  \/ RefineModelReplies

InitTransform ==
  /\ PipeInit /\ ScratchIdle /\ RoutingIdle /\ WhisperIdle
  /\ TransformInit /\ SegmentsIdle /\ SummaryIdle /\ ExtractionIdle
  /\ AppIdle

SpecTransform == InitTransform /\ [][NextTransform]_vars

\* C11: for a non-empty participant list P, label_speakers returns as many
\* segments as it was given, the i-th of them (counting from 0) with speaker
\* P[i mod len(P)] and with the text and times of the i-th input segment.
C11_RoundRobinLabels ==
  (transform.op = "label_speakers" /\ transform.pc = "returned"
     /\ transform.participants # <<>>)
    => LET P == transform.participants
           in == transform.before.segments
           out == transform.result.segments
       IN /\ Len(out) = Len(in)
          /\ \A i \in 0..(Len(in) - 1) :
               /\ out[i + 1].speaker = P[(i % Len(P)) + 1]
               /\ out[i + 1].text = in[i + 1].text
               /\ out[i + 1].start_time = in[i + 1].start_time
               /\ out[i + 1].end_time = in[i + 1].end_time

C11_Witness ==
  /\ transform.op = "label_speakers" /\ transform.pc = "returned"
  /\ Len(transform.participants) = 2
  /\ Len(transform.before.segments) = 3
  /\ transform.result.segments[3].speaker = transform.participants[1]

\* C12: in transcribe_audio with participants, a segment the provider
\* returned with a speaker label of its own keeps that label, and only the
\* segments labeled 'Unknown' are given a participant name.
C12_LabelOnlyUnlabeled ==
  (transform.op = "transcribe_audio" /\ transform.pc = "returned"
     /\ transform.participants # <<>>)
    => \A i \in 1..Len(transform.before.segments) :
         transform.before.segments[i].speaker # Unknown
           => transform.result.segments[i].speaker
                = transform.before.segments[i].speaker

\* C13: after label_speakers, _label_speakers or refine_transcript returns,
\* the object passed in holds the segments it held before the call, and the
\* returned result has the language and the metadata of the input.
C13_InputNotMutated ==
  (transform.pc = "returned" /\ ~transform.raised
     /\ transform.op \in {"label_speakers", "_label_speakers", "refine_transcript"})
    => /\ transform.passed.segments = transform.before.segments
       /\ transform.result.language = transform.before.language
       /\ transform.result.metadata = transform.before.metadata

\* C14: refine_transcript with an empty or blank context makes no model
\* call and returns segments, language and metadata equal to the input's.
C14_EmptyContextIdentity ==
  (transform.op = "refine_transcript" /\ transform.pc = "returned"
     /\ Strip(transform.context) = <<>>)
    => /\ transform.calls = 0
       /\ transform.result = transform.before

C14_Witness ==
  /\ transform.op = "refine_transcript" /\ transform.pc = "returned"
  /\ transform.context = <<" ">>
  /\ Len(transform.before.segments) = 2
  /\ transform.outcome = "skipped"

NoLineMatches(reply) ==
  \A i \in 1..Len(reply) : ~LineMatches(Strip(reply[i]))

Digits == {"00", "03", "05", "10", "1", "2"}

IntOf(tok) ==
  CASE tok = "00" -> 0 [] tok = "03" -> 3 [] tok = "05" -> 5
    [] tok = "10" -> 10 [] tok = "1" -> 1 [] tok = "2" -> 2

\* str.lower() of a token
Lower(tok) ==
  CASE tok = "Speaker" -> "speaker" [] tok = "SPEAKER" -> "speaker"
    [] tok = "SPEAKER_00" -> "speaker_00" [] tok = "SPEAKER_01" -> "speaker_01"
    [] tok = "Unknown" -> "unknown" [] tok = "Alice" -> "alice"
    [] tok = "Bob" -> "bob" [] tok = "Tom" -> "tom"
    [] tok = "Hello" -> "hello" [] tok = "World" -> "world"
    [] tok = "Intro" -> "intro" [] tok = "S" -> "s"
    [] OTHER -> tok

Delimiter == <<"S">>

\* content.split('\nS\n'): line i is a separator when it is exactly "S",
\* has a line before it and a line after it, and the newline before it was
\* not used up by a separator on line i - 1
RECURSIVE IsSeparator(_, _)
IsSeparator(content, i) ==
  /\ 1 < i /\ i < Len(content)
  /\ content[i] = Delimiter
  /\ ~IsSeparator(content, i - 1)

\* the parts of the content from line 'from' on
RECURSIVE SplitParts(_, _)
SplitParts(content, from) ==
  LET Seps == {i \in from..Len(content) : IsSeparator(content, i)}
  IN IF Seps = {} THEN <<SubSeq(content, from, Len(content))>>
     ELSE LET i == CHOOSE c \in Seps : \A d \in Seps : c <= d
          IN <<SubSeq(content, from, i - 1)>> \o SplitParts(content, i + 1)

\* part.strip().split('\n') with the blank lines left out and each line
\* stripped, as the loop over the lines does
PartLines(part) ==
  LET kept == SelectSeq(part, LAMBDA line : ~Blank(line))
  IN [i \in 1..Len(kept) |-> Strip(kept[i])]

\* re.match(r'Speaker\s+(\d+)', line, re.IGNORECASE)
SpeakerMatch(line) ==
  /\ Len(line) >= 3
  /\ Lower(line[1]) = "speaker"
  /\ IsSpace(line[2])
  /\ LStrip(Tail(line))[1] \in Digits

SpeakerNum(line) == LStrip(Tail(line))[1]

\* re.match(r'(\d+):(\d+)', line)
TimestampMatch(line) ==
  /\ Len(line) >= 3
  /\ line[1] \in Digits /\ line[2] = ":" /\ line[3] \in Digits

\* lines 98-119: the fields found in the lines of one part
RECURSIVE ScanLines(_, _)
ScanLines(lines, found) ==
  IF lines = <<>> THEN found
  ELSE LET line == Head(lines)
           next ==
             IF SpeakerMatch(line) /\ found.speaker = <<>>
               THEN [found EXCEPT !.speaker = <<"speaker_", SpeakerNum(line)>>]
             ELSE IF TimestampMatch(line) /\ found.timestamp = <<>>
               THEN [found EXCEPT
                       !.timestamp = <<IntOf(line[1]) * 60 + IntOf(line[3])>>]
             ELSE [found EXCEPT !.text_lines = Append(@, line)]
       IN ScanLines(Tail(lines), next)

\* ' '.join(text_lines)
RECURSIVE JoinLines(_)
JoinLines(text_lines) ==
  IF Len(text_lines) = 1 THEN text_lines[1]
  ELSE text_lines[1] \o <<" ">> \o JoinLines(Tail(text_lines))

\* lines 72-150: the loop over the parts, idx being the 0-based index of the
\* part; 'carry' is the text of part 0, which is put in front of part 1
RECURSIVE ParseParts(_, _, _, _)
ParseParts(parts, idx, carry, segs) ==
  IF idx >= Len(parts) THEN segs
  ELSE
    LET part == IF idx = 1 THEN carry \o parts[idx + 1] ELSE parts[idx + 1]
        lines == PartLines(part)
        found == ScanLines(lines, [speaker |-> <<>>, timestamp |-> <<>>,
                                   text_lines |-> <<>>])
        speaker == IF found.speaker = <<>>
                     THEN <<"speaker_", Decimal((idx % 2) + 1)>>
                     ELSE found.speaker
        timestamp ==
          IF found.timestamp # <<>> THEN Seconds(found.timestamp[1])
          ELSE IF segs # <<>> THEN Plus(segs[Len(segs)].end_time, Seconds(1))
          ELSE Seconds(0)
    IN IF lines = <<>> THEN ParseParts(parts, idx + 1, <<>>, segs)
       ELSE IF idx = 0 THEN ParseParts(parts, idx + 1, lines, segs)
       ELSE IF found.text_lines = <<>> THEN ParseParts(parts, idx + 1, <<>>, segs)
       ELSE ParseParts(parts, idx + 1, <<>>,
              Append(segs, TranscriptSegment(speaker, JoinLines(found.text_lines),
                                             timestamp, Plus(timestamp, Seconds(5)))))

\* lines 155-160
FixEndTimes(segs) ==
  [i \in 1..Len(segs) |->
     IF i < Len(segs)
       THEN [segs[i] EXCEPT !.end_time = segs[i + 1].start_time]
       ELSE [segs[i] EXCEPT !.end_time = Plus(segs[i].start_time, Seconds(5))]]

\* lines 162-169
ValidateTimes(segs) ==
  [i \in 1..Len(segs) |->
     IF Leq(segs[i].end_time, segs[i].start_time)
       THEN [segs[i] EXCEPT !.end_time = Plus(segs[i].start_time, Seconds(5))]
       ELSE segs[i]]

ParseError ==
  [raised |-> TRUE,
   result |-> MakeResult(<<>>, "none", [source |-> "none", duration |-> Seconds(0)])]

parse_text_file(content) ==
  LET parts == SplitParts(content, 1)
      segs == ValidateTimes(FixEndTimes(ParseParts(parts, 0, <<>>, <<>>)))
  IN IF \A i \in 1..Len(content) : Blank(content[i]) THEN ParseError
     ELSE IF Len(parts) < 2 THEN ParseError
     ELSE IF ParseParts(parts, 0, <<>>, <<>>) = <<>> THEN ParseError
     ELSE [raised |-> FALSE,
           result |-> MakeResult(segs, "he",
                                 [source |-> "text_import",
                                  duration |-> segs[Len(segs)].end_time])]

(***************************************************************************)
(* SpecSegments: one transcript from its source (Whisper, Ivrit or a text  *)
(* file) through the refinement step to the TranscriptSegment rows that    *)
(* process_transcription creates.                                          *)
(***************************************************************************)
\* most "S" blocks of a text file
MaxBlocks == 2

SpeakerLine(n) == <<"Speaker", " ", n>>

TimeLine(m, sec) == <<m, ":", sec>>

Blocks ==
  { <<Delimiter, SpeakerLine("1"), TimeLine("00", "05"), <<"Hello">>>>,
    <<Delimiter, SpeakerLine("2"), TimeLine("00", "10"), <<"World">>>>,
    <<Delimiter, SpeakerLine("1"), TimeLine("00", "03"), <<"Hello">>>>,
    <<Delimiter, SpeakerLine("2"), TimeLine("00", "05"), <<"World">>>>,
    <<Delimiter, <<"World">>>>,
    <<Delimiter, SpeakerLine("1"), TimeLine("00", "05")>> }

\* what may stand before the first block: nothing, a line of text, an empty line
Preambles == { <<>>, << <<"Intro">> >>, << <<>> >> }

RECURSIVE Concat(_)
Concat(seqs) == IF seqs = <<>> THEN <<>> ELSE Head(seqs) \o Concat(Tail(seqs))

Files ==
  { pre \o Concat(bs) :
      pre \in Preambles, bs \in UNION {[1..k -> Blocks] : k \in 1..MaxBlocks} }
    \cup { << <<>> >>, << <<"Hello">> >> }

\* the lines of a model reply in this specification
SegmentReplies ==
  UNION {[1..k -> {<<"Tom", ":", " ", "Hello">>, <<"Hello">>}] :
           k \in 1..MaxReplyLines}

NoRows == <<>>

Source(source, participants, content, raw, refine, context) ==
  [pc |-> "start", source |-> source, participants |-> participants,
   content |-> content, raw |-> raw, refine |-> refine, context |-> context,
   transcript_result |-> MakeResult(<<>>, "none", [provider |-> "none"]),
   rows |-> NoRows]

SegmentsInit ==
  segments \in
    { Source("whisper", P, <<>>, <<[speakers |-> <<>>, text |-> text,
                                   start |-> Seconds(0), end |-> Seconds(0)]>>,
             refine, c) :
        P \in SeqUpTo(Names, 1), text \in {<<"Hello">>, <<"Hi.", " ", "Bye.">>},
        refine \in BOOLEAN, c \in {<<>>, <<"standup">>} }
    \cup { Source("ivrit", P, <<>>, raw, refine, c) :
        P \in SeqUpTo(Names, 1), raw \in SeqUpTo(IvritPool, MaxSegments),
        refine \in BOOLEAN, c \in {<<>>, <<"standup">>} }
    \cup { Source("text", <<>>, content, <<>>, refine, c) :
        content \in Files, refine \in BOOLEAN, c \in {<<>>, <<"standup">>} }

notSegmentsVars ==
  <<pipeVars, scratchVars, routing, call, transform, summary, extraction,
    appVars>>

\* lines 209-213 of transcribe_audio
Labeled(participants, transcript_result) ==
  IF participants # <<>>
    THEN label_speakers(participants, transcript_result)
    ELSE transcript_result

WhisperTranscribes ==
  /\ segments.pc = "start" /\ segments.source = "whisper"
  /\ segments' =
       [segments EXCEPT
          !.pc = "transcribed",
          !.transcript_result =
             Labeled(segments.participants,
                     WhisperResult(segments.raw[1].text, "en"))]
  /\ UNCHANGED notSegmentsVars

IvritTranscribes ==
  /\ segments.pc = "start" /\ segments.source = "ivrit"
  /\ segments' =
       [segments EXCEPT
          !.pc = "transcribed",
          !.transcript_result =
             Labeled(segments.participants, IvritResult(segments.raw, "he"))]
  /\ UNCHANGED notSegmentsVars

TextImportParses ==
  /\ segments.pc = "start" /\ segments.source = "text"
  /\ LET parsed == parse_text_file(segments.content)
     IN segments' =
          [segments EXCEPT
             !.pc = IF parsed.raised THEN "failed" ELSE "transcribed",
             !.transcript_result = parsed.result]
  /\ UNCHANGED notSegmentsVars

\* refinement disabled, no context, or the model call failed
RefinementKeepsTranscript ==
  /\ segments.pc = "transcribed"
  /\ segments' = [segments EXCEPT !.pc = "refined"]
  /\ UNCHANGED notSegmentsVars

RefinementReplies ==
  /\ segments.pc = "transcribed"
  /\ segments.refine /\ ContextGiven(segments.context)
  /\ \E reply \in SegmentReplies :
       segments' =
         [segments EXCEPT
            !.pc = "refined",
            !.transcript_result = Refined(segments.transcript_result, reply)]
  /\ UNCHANGED notSegmentsVars

\* lines 162-163 of process_transcription
SpeakerId(segment, idx) ==
  IF segment.speaker # <<>>
    THEN [i \in 1..Len(segment.speaker) |->
            IF segment.speaker[i] = " " THEN "_" ELSE Lower(segment.speaker[i])]
    ELSE <<"speaker_", Decimal((idx % 10) + 1)>>

\* None is the empty sequence
SpeakerNameOrNone(segment) ==
  IF segment.speaker # <<>> /\ segment.speaker # Unknown
    THEN segment.speaker ELSE <<>>

\* lines 157-169
SegmentRows(transcript_result) ==
  [i \in 1..Len(transcript_result.segments) |->
     LET segment == transcript_result.segments[i] IN
       [speakerId |-> SpeakerId(segment, i - 1),
        speakerName |-> SpeakerNameOrNone(segment),
        text |-> segment.text,
        startTime |-> segment.start_time,
        endTime |-> segment.end_time,
        order |-> i - 1]]

PersistSegments ==
  /\ segments.pc = "refined"
  /\ segments' = [segments EXCEPT
                    !.pc = "saved",
                    !.rows = SegmentRows(segments.transcript_result)]
  /\ UNCHANGED notSegmentsVars

NextSegments ==
  \/ WhisperTranscribes
  \/ IvritTranscribes
  \/ TextImportParses
  \/ RefinementKeepsTranscript
  \/ RefinementReplies
  \/ PersistSegments

InitSegments ==
  /\ PipeInit /\ ScratchIdle /\ RoutingIdle /\ WhisperIdle
  /\ TransformIdle /\ SegmentsInit /\ SummaryIdle /\ ExtractionIdle
  /\ AppIdle

SpecSegments == InitSegments /\ [][NextSegments]_vars

\* C16: every TranscriptSegment row the pipeline stores has
\* endTime >= startTime, whichever source produced the segment.
C16_PersistedEndNotBeforeStart ==
  segments.pc = "saved"
    => \A i \in 1..Len(segments.rows) :
         Leq(segments.rows[i].startTime, segments.rows[i].endTime)

Sample ==
  << <<"S">>, SpeakerLine("1"), TimeLine("00", "05"), <<"Hello">>,
     <<"S">>, SpeakerLine("2"), TimeLine("00", "10"), <<"World">> >>

\* C17: parse_text_file on the eight lines S, Speaker 1, 00:05, Hello, S,
\* Speaker 2, 00:10, World returns exactly the two segments
\* (speaker_1, Hello, 5.0, 10.0) and (speaker_2, World, 10.0, 15.0).
C17_SampleParsesToTwoSegments ==
  (segments.source = "text" /\ segments.content = Sample
     /\ segments.pc \in {"transcribed", "failed"})
    => /\ segments.pc = "transcribed"
       /\ segments.transcript_result.segments =
            << TranscriptSegment(<<"speaker_", "1">>, <<"Hello">>,
                                 Seconds(5), Seconds(10)),
               TranscriptSegment(<<"speaker_", "2">>, <<"World">>,
                                 Seconds(10), Seconds(15)) >>

(***************************************************************************)
(* SpecSummary: one Summarizer.generate_summary call                       *)
(* (lib/summarization/summarizer.py) and what process_transcription does   *)
(* with its outcome.                                                       *)
(***************************************************************************)
\* the bodies of the model's reply, response.choices[0].message.content
FullBody ==
  "{\"overview\": \"Weekly sync\", \"key_points\": [\"ship\"], \"action_items\": [{\"description\": \"email\"}]}"

OverviewBody == "{\"overview\": \"Weekly sync\"}"

EmptyObjectBody == "{}"

BadItemBody == "{\"action_items\": [\"email\"]}"

ArrayBody == "[1, 2]"

ProseBody == "Sorry, I cannot summarize this."

PrefacedBody == "Here is the summary: {\"overview\": \"Weekly sync\"}"

TruncatedBody == "{\"overview\": \"Weekly"

EmptyBody == ""

Bodies ==
  { FullBody, OverviewBody, EmptyObjectBody, BadItemBody, ArrayBody,
    ProseBody, PrefacedBody, TruncatedBody, EmptyBody }

\* json.loads(content): the value, or JSONDecodeError
json_loads(content) ==
  CASE content = FullBody ->
         [ok |-> TRUE, type |-> "object",
          value |-> [overview |-> "Weekly sync", key_points |-> <<"ship">>,
                     action_items |-> <<[type |-> "object", description |-> "email"]>>]]
    [] content = OverviewBody ->
         [ok |-> TRUE, type |-> "object", value |-> [overview |-> "Weekly sync"]]
    [] content = EmptyObjectBody ->
         [ok |-> TRUE, type |-> "object", value |-> [none |-> "none"]]
    [] content = BadItemBody ->
         [ok |-> TRUE, type |-> "object",
          value |-> [action_items |-> <<[type |-> "string"]>>]]
    [] content = ArrayBody ->
         [ok |-> TRUE, type |-> "array", value |-> [none |-> "none"]]
    [] OTHER ->
         [ok |-> FALSE, type |-> "none", value |-> [none |-> "none"]]

\* dict.get(key, default)
Get(dict, key, default) == IF key \in DOMAIN dict THEN dict[key] ELSE default

MakeSummary(overview, key_points, action_items, participants) ==
  [overview |-> overview, key_points |-> key_points,
   action_items |-> action_items, participants |-> participants]

NoSummary == MakeSummary("", <<>>, <<>>, <<>>)

SummaryRaises(error) == [raised |-> error, summary |-> NoSummary]

SummaryReturns(value) == [raised |-> "none", summary |-> value]

\* lines 103-107 on the text of the exception
SummaryError(text) ==
  IF text \cap {"authentication", "api key"} # {}
    THEN "APIAuthenticationError" ELSE "APIError"

\* a summarizer that reports an unparseable reply as an error
RaiseOnDecodeError(participants) == SummaryRaises("APIError")

\* lines 93-101
OnDecodeError(participants) ==
  SummaryReturns(
    MakeSummary("Summary generation failed. Please review the transcript.",
                <<>>, <<>>, participants))

\* lines 71-91
FromJson(parsed, participants) ==
  IF parsed.type # "object" THEN SummaryRaises(SummaryError({}))
  ELSE LET items == Get(parsed.value, "action_items", <<>>)
       IN IF \E i \in 1..Len(items) : items[i].type # "object"
            THEN SummaryRaises(SummaryError({}))
            ELSE SummaryReturns(
                   MakeSummary(Get(parsed.value, "overview", ""),
                               Get(parsed.value, "key_points", <<>>),
                               [i \in 1..Len(items) |->
                                  [description |-> Get(items[i], "description", ""),
                                   assignee |-> Get(items[i], "assignee", "None"),
                                   deadline |-> Get(items[i], "deadline", "None")]],
                               participants))

\* lines 67-101 for a reply with a body
SummaryOfBody(content, participants) ==
  IF json_loads(content).ok
    THEN FromJson(json_loads(content), participants)
    ELSE OnDecodeError(participants)

notSummaryVars ==
  <<pipeVars, scratchVars, routing, call, transform, segments, extraction,
    appVars>>

SummaryInit ==
  summary \in
    { [pc |-> "called", participants |-> P, reply |-> "none", content |-> "",
       outcome |-> SummaryRaises("none"), status |-> "processing"] :
        P \in ParticipantLists }

Summarized(reply, content, outcome) ==
  summary' = [summary EXCEPT
                !.pc = IF outcome.raised = "none" THEN "returned" ELSE "raised",
                !.reply = reply, !.content = content, !.outcome = outcome]

\* client.chat.completions.create raises
SummaryCallRaises ==
  /\ summary.pc = "called"
  /\ \E text \in {{}, {"authentication"}, {"api key"}, {"timeout"}} :
       Summarized("error", "", SummaryRaises(SummaryError(text)))
  /\ UNCHANGED notSummaryVars

\* message.content is None: json.loads(None) raises TypeError
SummaryReplyWithoutBody ==
  /\ summary.pc = "called"
  /\ Summarized("no body", "", SummaryRaises(SummaryError({})))
  /\ UNCHANGED notSummaryVars

SummaryReplyWithBody ==
  /\ summary.pc = "called"
  /\ \E content \in Bodies :
       Summarized("body", content, SummaryOfBody(content, summary.participants))
  /\ UNCHANGED notSummaryVars

\* process_transcription lines 183-306: the summary is stored and the run
\* goes on to 'completed'
SummaryStored ==
  /\ summary.pc = "returned"
  /\ summary' = [summary EXCEPT !.pc = "done", !.status = "completed"]
  /\ UNCHANGED notSummaryVars

\* process_transcription lines 326-333
SummaryFailsRun ==
  /\ summary.pc = "raised"
  /\ summary' = [summary EXCEPT !.pc = "done", !.status = "failed"]
  /\ UNCHANGED notSummaryVars

NextSummary ==
  \/ SummaryCallRaises
  \/ SummaryReplyWithoutBody
  \/ SummaryReplyWithBody
  \/ SummaryStored
  \/ SummaryFailsRun

InitSummary ==
  /\ PipeInit /\ ScratchIdle /\ RoutingIdle /\ WhisperIdle
  /\ TransformIdle /\ SegmentsIdle /\ SummaryInit /\ ExtractionIdle
  /\ AppIdle

SpecSummary == InitSummary /\ [][NextSummary]_vars

\* a body that is not a JSON text
NotJson(content) ==
  content \in {ProseBody, PrefacedBody, TruncatedBody, EmptyBody}

\* C18: when the body of the model's reply is not valid JSON,
\* generate_summary does not raise: it returns a Summary with a non-empty
\* overview, no key points, no action items and the participants it was
\* given, and the run is not moved to 'failed'.
C18_UnparseableSummaryReply ==
  (summary.pc \in {"returned", "raised", "done"} /\ summary.reply = "body"
     /\ NotJson(summary.content))
    => /\ summary.outcome.raised = "none"
       /\ summary.outcome.summary.overview # ""
       /\ summary.outcome.summary.key_points = <<>>
       /\ summary.outcome.summary.action_items = <<>>
       /\ summary.outcome.summary.participants = summary.participants
       /\ summary.status # "failed"

C18_Witness ==
  /\ summary.pc = "done" /\ summary.reply = "body"
  /\ summary.content = ProseBody
  /\ Len(summary.participants) = 2
  /\ summary.status = "completed"

(***************************************************************************)
(* SpecEntities: one extract_entities or extract_and_deduplicate call      *)
(* (app/services/entity_extraction.py).                                    *)
(*                                                                         *)
(* The content of a reply is a sequence of tokens: "FENCE" is the three    *)
(* backquotes of a code fence, "TEXT" is the JSON text of the reply, whose *)
(* value is kept beside the tokens.                                        *)
(***************************************************************************)
\* most elements of the JSON array of a reply
MaxEntities == 3

Null == "<null>"

NoDict == [none |-> "none"]

Dict(d) == [kind |-> "dict", d |-> d]

\* the elements a reply's array is made of
Items ==
  { Dict([entity |-> "John Smith", type |-> "person",
          normalized_form |-> "john smith", context |-> "John Smith will lead"]),
    Dict([entity |-> "John", type |-> "person", normalized_form |-> "john smith"]),
    Dict([entity |-> " Acme ", type |-> "organization"]),
    Dict([entity |-> "Acme", type |-> "organization",
          normalized_form |-> "acme", metadata |-> "{}"]),
    Dict([entity |-> "John Smith", type |-> "organization",
          normalized_form |-> "john smith"]),
    Dict([type |-> "person", normalized_form |-> "dana"]),
    Dict([entity |-> "Dana", type |-> "person", normalized_form |-> "dana",
          metadata |-> Null]),
    [kind |-> "string", d |-> NoDict] }

JsonArray(items) == [type |-> "array", items |-> items]

JsonTexts ==
  { JsonArray(items) : items \in SeqUpTo(Items, MaxEntities) }
    \cup { [type |-> t, items |-> <<>>] :
             t \in {"object", "string", "number", "null", "invalid"} }

Layouts ==
  { <<"TEXT">>,
    <<"\n", "TEXT", "\n">>,
    <<"FENCE", "json", "\n", "TEXT", "\n", "FENCE">>,
    <<"FENCE", "\n", "TEXT", "\n", "FENCE">>,
    <<"FENCE", "json", "\n", "TEXT">>,
    <<"FENCE", "JSON", "\n", "TEXT", "\n", "FENCE">>,
    <<"Here", " ", "TEXT">>,
    <<"FENCE">> }

\* content.split("```")[1] for a content that starts with the fence
AfterFence(content) ==
  LET rest == Tail(content)
      close == FirstIndex(rest, {"FENCE"})
  IN IF close = 0 THEN rest ELSE SubSeq(rest, 1, close - 1)

\* lines 173-181
Unfenced(tokens) ==
  LET content == Strip(tokens)
  IN IF content # <<>> /\ content[1] = "FENCE"
       THEN LET inner == AfterFence(content)
            IN Strip(IF inner # <<>> /\ inner[1] = "json" THEN Tail(inner) ELSE inner)
       ELSE content

\* json.loads(content) succeeds
Loads(content, json) == Strip(content) = <<"TEXT">> /\ json.type # "invalid"

\* str.lower().strip() of an entity
LowerStrip(entity) ==
  CASE entity = "John Smith" -> "john smith" [] entity = "John" -> "john"
    [] entity = " Acme " -> "acme" [] entity = "Acme" -> "acme"
    [] entity = "Dana" -> "dana"

\* lines 189-196 succeed for the element
WellFormed(item) ==
  /\ item.kind = "dict"
  /\ Get(item.d, "metadata", "{}") # Null
  /\ "entity" \in DOMAIN item.d
  /\ "type" \in DOMAIN item.d

ExtractedEntity(item) ==
  [entity |-> item.d.entity,
   type |-> item.d.type,
   normalized_form |-> Get(item.d, "normalized_form", LowerStrip(item.d.entity)),
   context |-> Get(item.d, "context", "None"),
   metadata |-> Get(item.d, "metadata", "{}")]

\* an extractor that gives up on the reply at the first element it cannot read
AbortOnMalformed(entities) == <<>>

\* lines 198-200: the element is skipped
OnMalformed(entities) == entities

\* lines 183-203 for a JSON value
EntitiesOf(json) ==
  IF json.type # "array" THEN <<>>
  ELSE LET good == SelectSeq(json.items, WellFormed)
           entities == [i \in 1..Len(good) |-> ExtractedEntity(good[i])]
       IN IF Len(good) < Len(json.items) THEN OnMalformed(entities) ELSE entities

\* lines 173-210 for a reply with a content
EntitiesOfReply(tokens, json) ==
  IF Loads(Unfenced(tokens), json) THEN EntitiesOf(json) ELSE <<>>

SamePair(a, b) == a.type = b.type /\ a.normalized_form = b.normalized_form

\* a grouping in which a later entity replaces an earlier one with its key
LastOccurrence(entities, i) ==
  \A j \in (i + 1)..Len(entities) : ~SamePair(entities[j], entities[i])

\* lines 236-238
FirstOccurrence(entities, i) ==
  \A j \in 1..(i - 1) : ~SamePair(entities[j], entities[i])

\* lines 230-246
Deduplicated(entities) ==
  LET kept == SelectSeq([i \in 1..Len(entities) |-> i],
                        LAMBDA i : FirstOccurrence(entities, i))
      unique == [k \in 1..Len(kept) |-> entities[kept[k]]]
  IN [t \in {entities[i].type : i \in 1..Len(entities)} |->
        SelectSeq(unique, LAMBDA e : e.type = t)]

notExtractionVars ==
  <<pipeVars, scratchVars, routing, call, transform, segments, summary,
    appVars>>

ExtractionInit ==
  extraction \in
    { [pc |-> "called", op |-> op, reply |-> "none", tokens |-> <<>>,
       json |-> JsonArray(<<>>), entities |-> <<>>, result |-> <<>>,
       raised |-> FALSE] :
        op \in {"extract_entities", "extract_and_deduplicate"} }

Extracted(reply, tokens, json, entities) ==
  extraction' = [extraction EXCEPT
                   !.pc = IF extraction.op = "extract_entities"
                            THEN "returned" ELSE "extracted",
                   !.reply = reply, !.tokens = tokens, !.json = json,
                   !.entities = entities]

\* the request raises, or message.content is None
ExtractionCallFails ==
  /\ extraction.pc = "called"
  /\ \E reply \in {"error", "no content"} :
       Extracted(reply, <<>>, JsonArray(<<>>), <<>>)
  /\ UNCHANGED notExtractionVars

ExtractionReplies ==
  /\ extraction.pc = "called"
  /\ \E tokens \in Layouts, json \in JsonTexts :
       Extracted("content", tokens, json, EntitiesOfReply(tokens, json))
  /\ UNCHANGED notExtractionVars

Deduplicates ==
  /\ extraction.pc = "extracted"
  /\ extraction' = [extraction EXCEPT
                      !.pc = "returned",
                      !.result = Deduplicated(extraction.entities)]
  /\ UNCHANGED notExtractionVars

NextEntities ==
  \/ ExtractionCallFails
  \/ ExtractionReplies
  \/ Deduplicates

InitEntities ==
  /\ PipeInit /\ ScratchIdle /\ RoutingIdle /\ WhisperIdle
  /\ TransformIdle /\ SegmentsIdle /\ SummaryIdle /\ ExtractionInit
  /\ AppIdle

SpecEntities == InitEntities /\ [][NextEntities]_vars

Deduped == extraction.op = "extract_and_deduplicate" /\ extraction.pc = "returned"

\* the index of the first entity of E with the type and normalized form of E[i]
FirstWithPair(E, i) ==
  CHOOSE j \in 1..i : SamePair(E[j], E[i]) /\ \A k \in 1..(j - 1) : ~SamePair(E[k], E[i])

\* C19: the mapping returned by extract_and_deduplicate has no two entities
\* with the same type and normalized_form; for every (type, normalized_form)
\* of the extraction it holds the first entity with that pair, and it holds
\* nothing else.
C19_DeduplicatedKeepsFirst ==
  Deduped =>
    LET E == extraction.entities
        r == extraction.result
    IN /\ \A t \in DOMAIN r :
            \A i, j \in 1..Len(r[t]) :
              /\ r[t][i].type = t
              /\ i # j => r[t][i].normalized_form # r[t][j].normalized_form
              /\ \E k \in 1..Len(E) : E[k] = r[t][i]
       /\ \A i \in 1..Len(E) :
            /\ E[i].type \in DOMAIN r
            /\ \E k \in 1..Len(r[E[i].type]) :
                 r[E[i].type][k] = E[FirstWithPair(E, i)]

C19_Witness ==
  /\ Deduped
  /\ Len(extraction.entities) = 3
  /\ extraction.entities[1].entity = "John Smith"
  /\ extraction.entities[2].entity = "John"
  /\ SamePair(extraction.entities[1], extraction.entities[2])
  /\ Len(extraction.result["person"]) = 1
  /\ "organization" \in DOMAIN extraction.result

\* the reply holds a JSON array, bare or in a code fence
ParseableArray(tokens, json) ==
  /\ json.type = "array"
  /\ tokens \in { <<"TEXT">>, <<"\n", "TEXT", "\n">>,
                  <<"FENCE", "json", "\n", "TEXT", "\n", "FENCE">>,
                  <<"FENCE", "\n", "TEXT", "\n", "FENCE">> }

\* the reply holds no JSON array
NoArray(tokens, json) ==
  json.type # "array" \/ tokens \in {<<"Here", " ", "TEXT">>, <<"FENCE">>}

\* C20: extract_entities and extract_and_deduplicate never raise; when the
\* model call fails or the reply is not a parseable JSON array the result is
\* empty; a malformed element of the array is skipped and the well-formed
\* ones are kept.
C20_ExtractionNeverRaises ==
  extraction.pc \in {"extracted", "returned"} =>
    /\ ~extraction.raised
    /\ (extraction.reply \in {"error", "no content"}
          \/ NoArray(extraction.tokens, extraction.json))
         => /\ extraction.entities = <<>>
            /\ Deduped => DOMAIN extraction.result = {}
    /\ (extraction.reply = "content"
          /\ ParseableArray(extraction.tokens, extraction.json))
         => LET good == SelectSeq(extraction.json.items, WellFormed)
            IN /\ Len(extraction.entities) = Len(good)
               /\ \A i \in 1..Len(good) :
                    extraction.entities[i].type = good[i].d.type
                      /\ extraction.entities[i].entity = good[i].d.entity

C20_Witness ==
  /\ extraction.pc = "returned" /\ extraction.reply = "content"
  /\ extraction.tokens = <<"FENCE", "json", "\n", "TEXT", "\n", "FENCE">>
  /\ Len(extraction.json.items) = 3
  /\ ~WellFormed(extraction.json.items[1])
  /\ Len(extraction.entities) = 2

\* D of a transcript: the end_time of its last segment, 0.0 without segments
TotalDuration(transcript) ==
  IF transcript.segments # <<>>
    THEN transcript.segments[Len(transcript.segments)].end_time
    ELSE Seconds(0)

\* C25: when refinement accepts a reply, the n returned segments divide the
\* total duration D evenly: the k-th (counting from 0) spans
\* [k*D/n, (k+1)*D/n], for every reply, also one with blank lines or with
\* lines that do not match 'Label: text'.
C25_RefinedTimesDivideEvenly ==
  (transform.op = "refine_transcript" /\ transform.pc = "returned"
     /\ transform.outcome = "replied" /\ ~NoLineMatches(transform.reply))
    => LET D == TotalDuration(transform.before)
           out == transform.result.segments
           n == Len(out)
       IN \A k \in 0..(n - 1) :
            /\ out[k + 1].start_time = Frac(k * D.num, D.den * n)
            /\ out[k + 1].end_time = Frac((k + 1) * D.num, D.den * n)

\* C22: a transcribe call on an input path that does not exist is rejected
\* with AudioFileError or ValueError (not an APIError), without an endpoint
\* call and, for Whisper, without a retry.
C22_MissingInputRejected ==
  (call.pc \in {"raised", "returned"} /\ call.file = "missing")
    => /\ call.pc = "raised"
       /\ call.result \in {"AudioFileError", "ValueError"}
       /\ Len(call.kinds) = 1

(***************************************************************************)
(* AudioProcessor.process (lib/audio/processor.py) on one input path, with *)
(* the scratch directory <tmp>/meeting-transcriber as the call finds it.   *)
(***************************************************************************)
\* what Path.exists, Path.is_file, Path.stat().st_size (0: empty, 1: not
\* empty) and Path.suffix.lower() give for the input paths of the model
PathInfo(exists, is_file, st_size, suffix) ==
  [exists |-> exists, is_file |-> is_file, st_size |-> st_size, suffix |-> suffix]

InputInfos ==
  { PathInfo(FALSE, FALSE, 0, x) : x \in {".wav", ".txt"} }          \* no such path
    \cup { PathInfo(TRUE, FALSE, 1, x) : x \in {".wav", ".txt"} }    \* a directory
    \cup { PathInfo(TRUE, TRUE, n, x) : n \in {0, 1}, x \in {".wav", ".txt"} }

SUPPORTED_FORMATS == {".m4a", ".wav", ".mp3", ".flac", ".ogg", ".webm", ".mpga", ".mpeg"}

AudioFileError(text) == [class |-> "AudioFileError", text |-> text]

OtherError(class) == [class |-> class, text |-> "none"]

NoError == [class |-> "none", text |-> "none"]

\* a validation that looks at the suffix only
validate_suffix_only(file_path) ==
  IF file_path.suffix \notin SUPPORTED_FORMATS
    THEN AudioFileError("Unsupported format")
    ELSE NoError

\* AudioValidator.validate: the error it raises, NoError when it returns
validate(file_path) ==
  IF ~file_path.exists THEN AudioFileError("File not found")
  ELSE IF ~file_path.is_file THEN AudioFileError("Not a file")
  ELSE IF ~(file_path.st_size > 0) THEN AudioFileError("File is empty")
  ELSE IF file_path.suffix \notin SUPPORTED_FORMATS
    THEN AudioFileError("Unsupported format")
  ELSE NoError

\* the except clause of process: an AudioFileError is re-raised, any other
\* exception is raised as AudioFileError("Audio processing failed: ...")
ProcessExcept(e) ==
  IF e.class = "AudioFileError" THEN e ELSE AudioFileError("Audio processing failed")

\* AudioSegment.from_file can decode the file: ffmpeg reads no audio from a
\* path that is missing, a directory or an empty file
Decodable(file_path) == file_path.exists /\ file_path.is_file /\ file_path.st_size > 0

AudioInit ==
  /\ audio \in
       { [pc |-> "called", input |-> i, stem |-> st, pydub |-> p, ffmpeg |-> f,
          dir0 |-> d, files0 |-> fs, dir |-> d, files |-> fs,
          error |-> NoError, returned |-> "none"] :
           i \in InputInfos, st \in Stems, p \in BOOLEAN, f \in BOOLEAN,
           d \in BOOLEAN, fs \in SUBSET Stems }
  \* a directory that does not exist holds no file
  /\ audio.dir0 \/ audio.files0 = {}

notAudioVars ==
  <<pipeVars, scratchVars, routing, call, transform, segments, summary,
    extraction, chat, config, upsert, persist, recording>>

ProcessRaises(e) ==
  audio' = [audio EXCEPT !.pc = "raised", !.error = ProcessExcept(e)]

\* line 57 raises
ValidateRaises ==
  /\ audio.pc = "called"
  /\ validate(audio.input) # NoError
  /\ ProcessRaises(validate(audio.input))
  /\ UNCHANGED notAudioVars

\* lines 60-62: without pydub the input path is returned
ReturnsInput ==
  /\ audio.pc = "called"
  /\ validate(audio.input) = NoError
  /\ ~audio.pydub
  /\ audio' = [audio EXCEPT !.pc = "returned", !.returned = "input"]
  /\ UNCHANGED notAudioVars

\* line 64: check_ffmpeg raises AudioFileError
FfmpegMissing ==
  /\ audio.pc = "called"
  /\ validate(audio.input) = NoError
  /\ audio.pydub /\ ~audio.ffmpeg
  /\ ProcessRaises(AudioFileError("ffmpeg is not installed"))
  /\ UNCHANGED notAudioVars

\* line 69: AudioSegment.from_file raises (always when the file holds no
\* audio, possibly otherwise)
LoadRaises ==
  /\ audio.pc = "called"
  /\ validate(audio.input) = NoError
  /\ audio.pydub /\ audio.ffmpeg
  /\ ProcessRaises(OtherError("CouldntDecodeError"))
  /\ UNCHANGED notAudioVars

\* lines 88-101: the directory is made if it is not there, then the export
\* writes <stem>_processed.wav, or raises with the file written or not
Exports ==
  /\ audio.pc = "called"
  /\ validate(audio.input) = NoError
  /\ audio.pydub /\ audio.ffmpeg
  /\ Decodable(audio.input)
  /\ \E ok \in BOOLEAN, written \in BOOLEAN :
       /\ ok => written
       /\ audio' = [audio EXCEPT
            !.pc = IF ok THEN "returned" ELSE "raised",
            !.returned = IF ok THEN "scratch" ELSE "none",
            !.error = IF ok THEN NoError ELSE ProcessExcept(OtherError("OSError")),
            !.dir = TRUE,
            !.files = IF written THEN @ \cup {audio.stem} ELSE @]
  /\ UNCHANGED notAudioVars

NextProcess ==
  \/ ValidateRaises
  \/ ReturnsInput
  \/ FfmpegMissing
  \/ LoadRaises
  \/ Exports

InitProcess ==
  /\ PipeInit /\ ScratchIdle /\ RoutingIdle /\ WhisperIdle
  /\ TransformIdle /\ SegmentsIdle /\ SummaryIdle /\ ExtractionIdle
  /\ AudioInit /\ ChatIdle /\ ConfigIdle
  /\ UpsertIdle /\ PersistIdle /\ RecordingIdle

SpecProcess == InitProcess /\ [][NextProcess]_vars

\* the input does not exist or is a zero-byte file
MissingOrEmpty(file_path) ==
  ~file_path.exists \/ (file_path.is_file /\ file_path.st_size = 0)

\* C21: AudioProcessor.process on an input that does not exist or is a
\* zero-byte file always fails with AudioFileError and creates neither the
\* scratch directory nor a file in it.
C21_InvalidInputLeavesNoScratch ==
  (audio.pc \in {"returned", "raised"} /\ MissingOrEmpty(audio.input))
    => /\ audio.pc = "raised"
       /\ audio.error.class = "AudioFileError"
       /\ audio.dir = audio.dir0
       /\ audio.files = audio.files0

\* a zero-byte .wav file, pydub and ffmpeg installed, no scratch directory yet
C21_Witness ==
  /\ audio.pc = "raised"
  /\ audio.input = PathInfo(TRUE, TRUE, 0, ".wav")
  /\ audio.pydub /\ audio.ffmpeg
  /\ audio.error = AudioFileError("File is empty")
  /\ ~audio.dir0 /\ ~audio.dir

(***************************************************************************)
(* POST /chat (app/api/routes/chat.py), ChatService.chat and Chatbot for   *)
(* one session.  The handlers are coroutines of one event loop: a request  *)
(* runs from one await to the next without interruption.                   *)
(***************************************************************************)
\* number of POST /chat requests of one behaviour
MaxChatRequests == 2

ChatRequestIds == 1..MaxChatRequests

ChatMessage(role, content) == [role |-> role, content |-> content]

\* Chatbot.set_context: the system prompt built from transcript and summary
\* becomes the only element of conversation_history
set_context(prompt) == <<ChatMessage("system", prompt)>>

\* ChatService.chat lines 48-61: a new Chatbot, set_context, and the stored
\* history put in place of conversation_history when it is not empty
RestoredHistory(prompt, conversation_history) ==
  IF conversation_history # <<>>
    THEN conversation_history
    ELSE set_context(prompt)

\* Chatbot.chat lines 73-81: the question is appended and the whole
\* conversation_history is the messages argument of the request
RequestMessages(conversation_history, user_question) ==
  Append(conversation_history, ChatMessage("user", user_question))

\* the {"role", "content"} dicts built from session.chatMessages
HistoryOf(rows) == [i \in 1..Len(rows) |-> ChatMessage(rows[i].role, rows[i].content)]

ChatRow(role, content, r) == [role |-> role, content |-> content, request |-> r]

IdleChatRequest ==
  [pc |-> "idle", question |-> "none", history |-> <<>>, messages |-> <<>>,
   response |-> "none", code |-> 0]

\* the prompt set_context builds for the session of the model
SessionPrompt == "You are a helpful assistant analyzing a meeting transcript."

ChatInit ==
  chat \in
    { [session |-> st, rows |-> <<>>,
       requests |-> [r \in ChatRequestIds |-> IdleChatRequest]] :
        st \in {"missing", "incomplete", "complete"} }

notChatVars ==
  <<pipeVars, scratchVars, routing, call, transform, segments, summary,
    extraction, audio, config, upsert, persist, recording>>

SetChatRequest(r, req) == chat' = [chat EXCEPT !.requests[r] = req]

ChatFails(r, code) ==
  SetChatRequest(r, [chat.requests[r] EXCEPT !.pc = "failed", !.code = code])

\* lines 34-65: the session is read with its messages; 404, 400, or 500 when
\* the read raises
ChatLoads(r) ==
  /\ chat.requests[r].pc = "idle"
  /\ \E q \in {"q1", "q2"}, dbOk \in BOOLEAN :
       IF ~dbOk THEN ChatFails(r, 500)
       ELSE IF chat.session = "missing" THEN ChatFails(r, 404)
       ELSE IF chat.session = "incomplete" THEN ChatFails(r, 400)
       ELSE SetChatRequest(r, [chat.requests[r] EXCEPT
              !.pc = "calling", !.question = q,
              !.history = HistoryOf(chat.rows),
              !.messages = RequestMessages(
                 RestoredHistory(SessionPrompt, HistoryOf(chat.rows)), q)])
  /\ UNCHANGED notChatVars

\* the completion request returns: the route goes on to store the messages
ChatReplies(r) ==
  /\ chat.requests[r].pc = "calling"
  /\ \E a \in {"a1", "a2"} :
       SetChatRequest(r, [chat.requests[r] EXCEPT !.pc = "saveUser", !.response = a])
  /\ UNCHANGED notChatVars

\* the completion request raises: APIError, HTTP 500
ChatCallRaises(r) ==
  /\ chat.requests[r].pc = "calling"
  /\ ChatFails(r, 500)
  /\ UNCHANGED notChatVars

\* lines 127-133: db.chatmessage.create of the user message
SaveUserMessage(r) ==
  /\ chat.requests[r].pc = "saveUser"
  /\ \E dbOk \in BOOLEAN :
       IF dbOk
       THEN chat' = [chat EXCEPT
              !.rows = Append(@, ChatRow("user", chat.requests[r].question, r)),
              !.requests[r].pc = "saveAssistant"]
       ELSE ChatFails(r, 500)
  /\ UNCHANGED notChatVars

\* lines 136-142: db.chatmessage.create of the assistant message
SaveAssistantMessage(r) ==
  /\ chat.requests[r].pc = "saveAssistant"
  /\ \E dbOk \in BOOLEAN :
       IF dbOk
       THEN chat' = [chat EXCEPT
              !.rows = Append(@, ChatRow("assistant", chat.requests[r].response, r)),
              !.requests[r].pc = "done", !.requests[r].code = 200]
       ELSE ChatFails(r, 500)
  /\ UNCHANGED notChatVars

NextChat ==
  \E r \in ChatRequestIds :
    \/ ChatLoads(r)
    \/ ChatReplies(r)
    \/ ChatCallRaises(r)
    \/ SaveUserMessage(r)
    \/ SaveAssistantMessage(r)

InitChat ==
  /\ PipeInit /\ ScratchIdle /\ RoutingIdle /\ WhisperIdle
  /\ TransformIdle /\ SegmentsIdle /\ SummaryIdle /\ ExtractionIdle
  /\ AudioIdle /\ ChatInit /\ ConfigIdle
  /\ UpsertIdle /\ PersistIdle /\ RecordingIdle

SpecChat == InitChat /\ [][NextChat]_vars

\* C23: every chat-completion request has the system prompt as its first
\* message, followed by the whole conversation so far (the stored history
\* and the new question), on every turn of a POST /chat conversation.
C23_SystemPromptLeadsEveryRequest ==
  \A r \in ChatRequestIds :
    chat.requests[r].messages # <<>>
      => /\ Head(chat.requests[r].messages) = ChatMessage("system", SessionPrompt)
         /\ Tail(chat.requests[r].messages) =
              Append(chat.requests[r].history,
                     ChatMessage("user", chat.requests[r].question))

\* the rows a request has stored
RowsOf(r) == SelectSeq(chat.rows, LAMBDA row : row.request = r)

\* user and assistant rows alternate, starting with a user row
Alternates(rows) ==
  \A i \in 1..Len(rows) :
    rows[i].role = IF i % 2 = 1 THEN "user" ELSE "assistant"

\* C29: a POST /chat request that fails stores no row, one that succeeds
\* stores exactly a user row followed by an assistant row, and once no
\* request is in progress the stored history alternates user / assistant.
C29_ChatRowsAtomic ==
  /\ \A r \in ChatRequestIds :
       /\ chat.requests[r].pc = "failed" => RowsOf(r) = <<>>
       /\ chat.requests[r].pc = "done"
            => /\ Len(RowsOf(r)) = 2
               /\ RowsOf(r)[1].role = "user"
               /\ RowsOf(r)[2].role = "assistant"
  /\ (\A r \in ChatRequestIds : chat.requests[r].pc \in {"idle", "failed", "done"})
       => Alternates(chat.rows)

(***************************************************************************)
(* The command line (src/cli/parser.py), the layered configuration         *)
(* (src/config/loader.py) and the chat step of main (src/main.py).  A      *)
(* Python value is written as its repr: "True", "False", "None",           *)
(* "microphone", "system"; a dict is a function on its keys.               *)
(***************************************************************************)
\* most flags on one command line
MaxFlags == 2

Flags ==
  {"--enable-chat", "--no-chat", "--no-save-chat",
   "--record-source system", "--record-source microphone"}

CommandLines == SeqUpTo(Flags, MaxFlags)

\* the namespace argparse starts from: for each dest the default of the first
\* action added with that dest.  --enable-chat (store_true, default False)
\* is added before --no-chat (store_false, default True); --no-save-chat is
\* store_false (default True); --record-source has default='microphone';
\* --context has no default (None)
ArgDefaults ==
  [chat_enabled |-> "False", chat_save_history |-> "True",
   record_source |-> "microphone", context |-> "None"]

\* the action of one option string
ApplyFlag(namespace, flag) ==
  CASE flag = "--enable-chat" -> [namespace EXCEPT !.chat_enabled = "True"]
    [] flag = "--no-chat" -> [namespace EXCEPT !.chat_enabled = "False"]
    [] flag = "--no-save-chat" -> [namespace EXCEPT !.chat_save_history = "False"]
    [] flag = "--record-source system" -> [namespace EXCEPT !.record_source = "system"]
    [] OTHER -> [namespace EXCEPT !.record_source = "microphone"]

RECURSIVE ParseArgs(_, _)
\* parser.parse_args: the options are applied left to right
ParseArgs(namespace, argv) ==
  IF argv = <<>> THEN namespace
  ELSE ParseArgs(ApplyFlag(namespace, Head(argv)), Tail(argv))

\* parse_arguments()['cli_args']
parse_arguments(argv) == ParseArgs(ArgDefaults, argv)

\* ConfigLoader._load_defaults, the keys the model follows
load_defaults ==
  [chat_enabled |-> "True", chat_save_history |-> "True",
   record_source |-> "microphone"]

\* the YAML files of the model: each of chat.enabled, chat.save_history and
\* recording.source is set or "absent"
YamlFiles ==
  [enabled : {"absent", "True", "False"},
   save_history : {"absent", "True", "False"},
   source : {"absent", "microphone", "system"}]

\* ConfigLoader._flatten_nested_config
flatten_nested_config(yaml) ==
  LET keys == (IF yaml.enabled # "absent" THEN {"chat_enabled"} ELSE {})
                \cup (IF yaml.save_history # "absent" THEN {"chat_save_history"} ELSE {})
                \cup (IF yaml.source # "absent" THEN {"record_source"} ELSE {})
  IN [k \in keys |->
        CASE k = "chat_enabled" -> yaml.enabled
          [] k = "chat_save_history" -> yaml.save_history
          [] OTHER -> yaml.source]

\* ConfigLoader._merge for flat dicts: a value that is not None overrides
merge(base, override) ==
  LET set == {k \in DOMAIN override : override[k] # "None"}
  IN [k \in DOMAIN base \cup set |-> IF k \in set THEN override[k] ELSE base[k]]

\* ConfigLoader._load_env sets none of the keys the model follows
EnvConfig == [k \in {} |-> "None"]

\* ConfigLoader.load, up to the dict handed to Config(**config)
load(config_path, yaml, cli_args) ==
  LET c1 == load_defaults
      c2 == IF config_path # "None" THEN merge(c1, flatten_nested_config(yaml)) ELSE c1
      c3 == merge(c2, EnvConfig)
      cli_args_clean == [k \in {k \in DOMAIN cli_args : cli_args[k] # "None"} |-> cli_args[k]]
  IN merge(c3, cli_args_clean)

ConfigInit ==
  /\ config \in
       { [pc |-> "start", argv |-> a, config_path |-> f, yaml |-> y,
          cli_args |-> ArgDefaults, config |-> load_defaults, chat |-> "none"] :
           a \in CommandLines, f \in {"None", "config.yaml"}, y \in YamlFiles }
  \* without --config there is no file to set anything
  /\ config.config_path = "None"
       => config.yaml = [enabled |-> "absent", save_history |-> "absent",
                         source |-> "absent"]

notConfigVars ==
  <<pipeVars, scratchVars, routing, call, transform, segments, summary,
    extraction, audio, chat, upsert, persist, recording>>

\* main line 46
ParseArguments ==
  /\ config.pc = "start"
  /\ config' = [config EXCEPT !.pc = "parsed",
                              !.cli_args = parse_arguments(config.argv)]
  /\ UNCHANGED notConfigVars

\* main line 58
LoadConfig ==
  /\ config.pc = "parsed"
  /\ config' = [config EXCEPT
       !.pc = "loaded",
       !.config = load(config.config_path, config.yaml, config.cli_args)]
  /\ UNCHANGED notConfigVars

\* main lines 190-203: the chat session runs if config.chat_enabled
ChatStep ==
  /\ config.pc = "loaded"
  /\ config' = [config EXCEPT
       !.pc = "done",
       !.chat = IF config.config.chat_enabled = "True" THEN "ran" ELSE "skipped"]
  /\ UNCHANGED notConfigVars

NextConfig ==
  \/ ParseArguments
  \/ LoadConfig
  \/ ChatStep

InitConfig ==
  /\ PipeInit /\ ScratchIdle /\ RoutingIdle /\ WhisperIdle
  /\ TransformIdle /\ SegmentsIdle /\ SummaryIdle /\ ExtractionIdle
  /\ AudioIdle /\ ChatIdle /\ ConfigInit
  /\ UpsertIdle /\ PersistIdle /\ RecordingIdle

SpecConfig == InitConfig /\ [][NextConfig]_vars

Given(argv, flags) == \E i \in 1..Len(argv) : argv[i] \in flags

OrDefault(value, default) == IF value # "absent" THEN value ELSE default

\* C24: without --enable-chat and --no-chat the chat is enabled unless the
\* YAML file sets chat.enabled to false; the YAML value of chat.enabled,
\* chat.save_history and recording.source is the effective one whenever the
\* flag of that setting is not on the command line.
C24_YamlEffectiveWithoutFlag ==
  config.pc = "done" =>
    /\ ~Given(config.argv, {"--enable-chat", "--no-chat"})
         => /\ config.config.chat_enabled = OrDefault(config.yaml.enabled, "True")
            /\ config.chat = IF config.yaml.enabled = "False" THEN "skipped" ELSE "ran"
    /\ ~Given(config.argv, {"--no-save-chat"})
         => config.config.chat_save_history = OrDefault(config.yaml.save_history, "True")
    /\ ~Given(config.argv, {"--record-source system", "--record-source microphone"})
         => config.config.record_source = OrDefault(config.yaml.source, "microphone")

(***************************************************************************)
(* The entity upsert of process_transcription (lines 222-258) for runs of  *)
(* one user.  Every db call is awaited: another run can take steps between *)
(* the find_first of a run and the update or create that follows it.  The  *)
(* auto-tag statements that follow the mention (lines 260-294) read and    *)
(* write no Entity row and are left out.                                   *)
(***************************************************************************)
\* number of runs that store entities
MaxUpsertRuns == 2

UpsertRunIds == 1..MaxUpsertRuns

\* (type, normalizedValue) of the entities of the model
EntityKeys == {<<"person", "tom">>, <<"organization", "acme">>}

\* what extract_and_deduplicate returned to a run: no key twice
ExtractedLists ==
  {ks \in SeqUpTo(EntityKeys, 2) :
     ks # <<>> /\ \A i, j \in 1..Len(ks) : i # j => ks[i] # ks[j]}

\* The declaration of the Entity table is not among the sources: the model
\* covers a table with (unique_index) and without a unique index on
\* (userId, type, normalizedValue).
\* an Entity row; increments counts the update calls made on the row and
\* initial is the mentionCount it had when the behaviour began or when it
\* was created
EntityRow(key, count) ==
  [key |-> key, mentionCount |-> count, initial |-> count, increments |-> 0]

NoRow == 0

UpsertInit ==
  upsert \in
    { [rows |-> rows, mentions |-> <<>>, unique_index |-> u,
       runs |-> [r \in UpsertRunIds |->
                   [pc |-> "find", entities |-> E[r], idx |-> 1,
                    existing |-> NoRow, existingCount |-> 0, entity_record |-> NoRow]]] :
        rows \in {<<>>, <<EntityRow(<<"person", "tom">>, 1)>>},
        u \in BOOLEAN,
        E \in [UpsertRunIds -> ExtractedLists] }

notUpsertVars ==
  <<pipeVars, scratchVars, routing, call, transform, segments, summary,
    extraction, audio, chat, config, persist, recording>>

\* db.entity.find_first(where userId, type, normalizedValue): the index of
\* the first such row, NoRow when there is none
find_first(rows, key) ==
  IF \E i \in 1..Len(rows) : rows[i].key = key
    THEN CHOOSE i \in 1..Len(rows) :
           /\ rows[i].key = key
           /\ \A j \in 1..(i - 1) : rows[j].key # key
    ELSE NoRow

UpsertRun(r) == upsert.runs[r]

CurrentKey(r) == UpsertRun(r).entities[UpsertRun(r).idx]

\* lines 226-232; a call that raises ends the entity block (line 298)
FindExisting(r) ==
  /\ UpsertRun(r).pc = "find"
  /\ \E dbOk \in BOOLEAN :
       IF dbOk
       THEN LET i == find_first(upsert.rows, CurrentKey(r)) IN
            upsert' = [upsert EXCEPT
              !.runs[r].pc = "write",
              !.runs[r].existing = i,
              !.runs[r].existingCount =
                 IF i # NoRow THEN upsert.rows[i].mentionCount ELSE 0]
       ELSE upsert' = [upsert EXCEPT !.runs[r].pc = "done"]
  /\ UNCHANGED notUpsertVars

\* lines 234-239: mentionCount is written as the value read by find_first
\* plus one
UpdateExisting(r) ==
  /\ UpsertRun(r).pc = "write"
  /\ UpsertRun(r).existing # NoRow
  /\ upsert' = [upsert EXCEPT
       !.rows[UpsertRun(r).existing].mentionCount = UpsertRun(r).existingCount + 1,
       !.rows[UpsertRun(r).existing].increments = @ + 1,
       !.runs[r].pc = "mention",
       !.runs[r].entity_record = UpsertRun(r).existing]
  /\ UNCHANGED notUpsertVars

\* lines 240-249: a new row, with the mentionCount of a first mention; under
\* a unique index the create raises when the row exists by now, which ends
\* the entity block (line 298)
CreateEntity(r) ==
  /\ UpsertRun(r).pc = "write"
  /\ UpsertRun(r).existing = NoRow
  /\ IF upsert.unique_index /\ find_first(upsert.rows, CurrentKey(r)) # NoRow
     THEN upsert' = [upsert EXCEPT !.runs[r].pc = "done"]
     ELSE upsert' = [upsert EXCEPT
            !.rows = Append(@, EntityRow(CurrentKey(r), 1)),
            !.runs[r].pc = "mention",
            !.runs[r].entity_record = Len(upsert.rows) + 1]
  /\ UNCHANGED notUpsertVars

\* lines 251-258, then the next entity of the loop
CreateMention(r) ==
  /\ UpsertRun(r).pc = "mention"
  /\ upsert' = [upsert EXCEPT
       !.mentions = Append(@, [entityId |-> UpsertRun(r).entity_record, sessionId |-> r]),
       !.runs[r].pc = IF UpsertRun(r).idx < Len(UpsertRun(r).entities)
                        THEN "find" ELSE "done",
       !.runs[r].idx = IF UpsertRun(r).idx < Len(UpsertRun(r).entities)
                         THEN @ + 1 ELSE @]
  /\ UNCHANGED notUpsertVars

NextUpsert ==
  \E r \in UpsertRunIds :
    \/ FindExisting(r)
    \/ UpdateExisting(r)
    \/ CreateEntity(r)
    \/ CreateMention(r)

InitUpsert ==
  /\ PipeInit /\ ScratchIdle /\ RoutingIdle /\ WhisperIdle
  /\ TransformIdle /\ SegmentsIdle /\ SummaryIdle /\ ExtractionIdle
  /\ AudioIdle /\ ChatIdle /\ ConfigIdle
  /\ UpsertInit /\ PersistIdle /\ RecordingIdle

SpecUpsert == InitUpsert /\ [][NextUpsert]_vars

\* C26: under every interleaving of the runs of one user there is at most
\* one Entity row per (type, normalizedValue), and every update made for a
\* repeated mention raises the row's mentionCount by exactly one.
C26_OneRowPerEntityNoLostIncrement ==
  /\ \A i, j \in 1..Len(upsert.rows) :
       i # j => upsert.rows[i].key # upsert.rows[j].key
  /\ \A i \in 1..Len(upsert.rows) :
       upsert.rows[i].mentionCount = upsert.rows[i].initial + upsert.rows[i].increments

(***************************************************************************)
(* One recording session of app/api/routes/record.py after /record/start:  *)
(* the entry of active_recordings, the recording directory and the         *)
(* upload_chunk and stop_recording requests for its id.  upload_chunk      *)
(* suspends once, at `await request.body()`; stop_recording holds no await *)
(* (subprocess.run blocks the event loop) and runs as one step.            *)
(***************************************************************************)
\* number of upload_chunk requests of one behaviour
MaxUploads == 3
\* number of stop_recording requests of one behaviour
MaxStops == 2

ChunkUploads == 1..MaxUploads

\* chunk_{n:04d}.webm holding the body of upload u
ChunkFile(n, u) == [n |-> n, data |-> u]

\* the state start_recording leaves: the dict it stored in
\* active_recordings (session; an upload_chunk in progress keeps its
\* reference to the dict after the entry is deleted) and an empty directory
RecordingInit ==
  recording =
    [active |-> TRUE,
     session |-> [status |-> "recording", chunks_received |-> 0],
     chunks |-> {}, concat |-> FALSE, wav |-> <<>>, hasWav |-> FALSE,
     uploads |-> [u \in ChunkUploads |-> [pc |-> "idle", code |-> 0]],
     stops |-> 0, stopped |-> FALSE, writtenAfterStop |-> FALSE]

notRecordingVars ==
  <<pipeVars, scratchVars, routing, call, transform, segments, summary,
    extraction, audio, chat, config, upsert, persist>>

UploadEnds(u, code) ==
  recording' = [recording EXCEPT !.uploads[u].pc = "ended", !.uploads[u].code = code]

\* lines 74-90: 404 without an entry, 400 when its status is not
\* 'recording', otherwise the handler waits for the body
UploadChunkStarts(u) ==
  /\ recording.uploads[u].pc = "idle"
  /\ IF ~recording.active THEN UploadEnds(u, 404)
     ELSE IF recording.session.status # "recording" THEN UploadEnds(u, 400)
     ELSE recording' = [recording EXCEPT !.uploads[u].pc = "reading"]
  /\ UNCHANGED notRecordingVars

\* lines 92-125: the body has arrived.  An empty body is answered 400, a
\* failed write 500; otherwise the chunk is written under the number the
\* session dict holds now, the counter is raised and the chunk acknowledged
\* with 200.  Neither active_recordings nor the status is looked at again.
UploadChunkWrites(u) ==
  /\ recording.uploads[u].pc = "reading"
  /\ \E body \in {"empty", "data"}, ioOk \in BOOLEAN :
       IF body = "empty" THEN UploadEnds(u, 400)
       ELSE IF ~ioOk THEN UploadEnds(u, 500)
       ELSE recording' = [recording EXCEPT
              !.chunks = @ \cup {ChunkFile(recording.session.chunks_received, u)},
              !.session.chunks_received = @ + 1,
              !.uploads[u].pc = "ended",
              !.uploads[u].code = 200,
              !.writtenAfterStop = @ \/ recording.stopped]
  /\ UNCHANGED notRecordingVars

\* sorted(recording_dir.glob("chunk_*.webm")): the bodies by chunk number
RECURSIVE MergeOrder(_)
MergeOrder(chunks) ==
  IF chunks = {} THEN <<>>
  ELSE LET c == CHOOSE c \in chunks : \A d \in chunks : c.n <= d.n
       IN <<c.data>> \o MergeOrder(chunks \ {c})

\* lines 139-176 and 253-256: the directory exists (start_recording made
\* it), so there is no 404; without a chunk file the answer is 400 and the
\* entry is deleted
StopWithoutChunks ==
  /\ recording.stops < MaxStops
  /\ recording.chunks = {}
  /\ recording' = [recording EXCEPT !.active = FALSE, !.stops = @ + 1]
  /\ UNCHANGED notRecordingVars

\* lines 184-213: concat.txt is written and ffmpeg fails: 500, the chunk
\* files and concat.txt stay, the entry is deleted
StopMergeFails ==
  /\ recording.stops < MaxStops
  /\ recording.chunks # {}
  /\ recording' = [recording EXCEPT
       !.concat = TRUE, !.active = FALSE, !.stops = @ + 1]
  /\ UNCHANGED notRecordingVars

\* lines 184-243: ffmpeg -y writes recording.wav from the chunk files found,
\* the chunk files and concat.txt are unlinked, the status is set and the
\* answer is 200; the entry is deleted
StopMerges ==
  /\ recording.stops < MaxStops
  /\ recording.chunks # {}
  /\ recording' = [recording EXCEPT
       !.wav = MergeOrder(recording.chunks), !.hasWav = TRUE,
       !.chunks = {}, !.concat = FALSE,
       !.session.status = IF recording.active THEN "completed" ELSE @,
       !.active = FALSE, !.stops = @ + 1, !.stopped = TRUE]
  /\ UNCHANGED notRecordingVars

NextRecording ==
  \/ \E u \in ChunkUploads : UploadChunkStarts(u) \/ UploadChunkWrites(u)
  \/ StopWithoutChunks
  \/ StopMergeFails
  \/ StopMerges

InitRecording ==
  /\ PipeInit /\ ScratchIdle /\ RoutingIdle /\ WhisperIdle
  /\ TransformIdle /\ SegmentsIdle /\ SummaryIdle /\ ExtractionIdle
  /\ AudioIdle /\ ChatIdle /\ ConfigIdle
  /\ UpsertIdle /\ PersistIdle /\ RecordingInit

SpecRecording == InitRecording /\ [][NextRecording]_vars

Merged(u) == \E i \in 1..Len(recording.wav) : recording.wav[i] = u

\* C28: once stop_recording has returned successfully the directory holds
\* recording.wav and nothing else, every chunk acknowledged with 200 is part
\* of the merged recording, and no chunk file was written after the stop.
C28_StoppedRecordingIsComplete ==
  recording.stopped =>
    /\ recording.hasWav /\ recording.chunks = {} /\ ~recording.concat
    /\ \A u \in ChunkUploads : recording.uploads[u].code = 200 => Merged(u)
    /\ ~recording.writtenAfterStop

(***************************************************************************)
(* Termination of the pipeline.  Every awaited call of a background run    *)
(* returns or raises, so a run that has a step to take takes it: weak      *)
(* fairness of process_transcription.  Requests (POST /transcribe, PATCH)  *)
(* arrive or not.                                                          *)
(***************************************************************************)
SpecLive == InitRun /\ [][Next]_vars /\ WF_vars(process_transcription)

\* C30: every session created by POST /transcribe eventually has status
\* 'completed' or 'failed', whatever raises in the request handler after the
\* row is created or in the background run.
C30_EverySessionTerminates ==
  \A s \in SessionIds :
    (status[s] \in {"pending", "processing"}) ~> (status[s] \in {"completed", "failed"})

(***************************************************************************)
(* The rows process_transcription stores (lines 148-203) and its write of  *)
(* 'completed' (lines 302-306), for runs of different sessions.  Every     *)
(* create is awaited on its own and may raise after earlier rows of the    *)
(* same transcript or summary were stored.                                 *)
(***************************************************************************)
\* number of runs that store rows; run r works for session r
MaxPersistRuns == 2

PersistRunIds == 1..MaxPersistRuns

\* the TranscriptResult a run holds when it reaches line 148
TwoSegments ==
  << TranscriptSegment(Unknown, <<"Hello">>, Seconds(0), Seconds(0)),
     TranscriptSegment(<<"SPEAKER_00">>, <<"World">>, Seconds(0), Seconds(4)) >>

PersistTranscripts ==
  { MakeResult(SubSeq(TwoSegments, 1, n), "en", [provider |-> "whisper"]) :
      n \in 0..Len(TwoSegments) }

\* summary_result.action_items
ActionItemLists == {<<>>, <<"send notes">>, <<"send notes", "book room">>}

\* a run that loses the error and goes on to the write of 'completed'
PersistIgnore(run) == [run EXCEPT !.pc = "complete"]

\* the handler of `except Exception as e` (line 326) is entered
PersistRaise(run) == [run EXCEPT !.pc = "except"]

PersistInit ==
  persist \in
    { [transcripts |-> <<>>, segments |-> <<>>, summaries |-> <<>>,
       actionItems |-> <<>>,
       status |-> [r \in PersistRunIds |-> "processing"],
       runs |-> [r \in PersistRunIds |->
                   [pc |-> "transcript", transcript_result |-> T[r],
                    action_items |-> <<>>, transcript_record |-> 0,
                    summary_record |-> 0, idx |-> 0]]] :
        T \in [PersistRunIds -> PersistTranscripts] }

notPersistVars ==
  <<pipeVars, scratchVars, routing, call, transform, segments, summary,
    extraction, audio, chat, config, upsert, recording>>

PersistRun(r) == persist.runs[r]

\* lines 149-155
CreateTranscript(r) ==
  /\ PersistRun(r).pc = "transcript"
  /\ \E dbOk \in BOOLEAN :
       IF dbOk
       THEN persist' = [persist EXCEPT
              !.transcripts = Append(@, [sessionId |-> r]),
              !.runs[r].transcript_record = Len(persist.transcripts) + 1,
              !.runs[r].pc =
                 IF PersistRun(r).transcript_result.segments # <<>>
                   THEN "segment" ELSE "summarize"]
       ELSE persist' = [persist EXCEPT !.runs[r] = PersistRaise(@)]
  /\ UNCHANGED notPersistVars

\* lines 158-169: the row of segment idx
CreateSegment(r) ==
  /\ PersistRun(r).pc = "segment"
  /\ \E dbOk \in BOOLEAN :
       LET run == PersistRun(r)
           rows == SegmentRows(run.transcript_result) IN
       IF dbOk
       THEN persist' = [persist EXCEPT
              !.segments = Append(@, [transcriptId |-> run.transcript_record,
                                      row |-> rows[run.idx + 1]]),
              !.runs[r].idx = IF run.idx + 1 < Len(rows) THEN @ + 1 ELSE 0,
              !.runs[r].pc = IF run.idx + 1 < Len(rows) THEN "segment" ELSE "summarize"]
       ELSE persist' = [persist EXCEPT !.runs[r] = PersistRaise(@)]
  /\ UNCHANGED notPersistVars

\* lines 175-181: generate_summary returns a Summary or raises
GenerateSummary(r) ==
  /\ PersistRun(r).pc = "summarize"
  /\ \E callOk \in BOOLEAN, items \in ActionItemLists :
       IF callOk
       THEN persist' = [persist EXCEPT
              !.runs[r].action_items = items, !.runs[r].pc = "summary"]
       ELSE persist' = [persist EXCEPT !.runs[r] = PersistRaise(@)]
  /\ UNCHANGED notPersistVars

\* lines 184-190
CreateSummary(r) ==
  /\ PersistRun(r).pc = "summary"
  /\ \E dbOk \in BOOLEAN :
       IF dbOk
       THEN persist' = [persist EXCEPT
              !.summaries = Append(@, [sessionId |-> r]),
              !.runs[r].summary_record = Len(persist.summaries) + 1,
              !.runs[r].pc =
                 IF PersistRun(r).action_items # <<>> THEN "item" ELSE "entities"]
       ELSE persist' = [persist EXCEPT !.runs[r] = PersistRaise(@)]
  /\ UNCHANGED notPersistVars

\* lines 193-201: the row of action item idx
CreateActionItem(r) ==
  /\ PersistRun(r).pc = "item"
  /\ \E dbOk \in BOOLEAN :
       LET run == PersistRun(r) IN
       IF dbOk
       THEN persist' = [persist EXCEPT
              !.actionItems = Append(@, [summaryId |-> run.summary_record,
                                         description |-> run.action_items[run.idx + 1]]),
              !.runs[r].idx = IF run.idx + 1 < Len(run.action_items) THEN @ + 1 ELSE 0,
              !.runs[r].pc = IF run.idx + 1 < Len(run.action_items)
                               THEN "item" ELSE "entities"]
       ELSE persist' = [persist EXCEPT !.runs[r] = PersistRaise(@)]
  /\ UNCHANGED notPersistVars

\* lines 205-300: the entity block ends, by its end or by its own except
EntityBlockEnds(r) ==
  /\ PersistRun(r).pc = "entities"
  /\ persist' = [persist EXCEPT !.runs[r].pc = "complete"]
  /\ UNCHANGED notPersistVars

\* lines 302-306
WriteCompleted(r) ==
  /\ PersistRun(r).pc = "complete"
  /\ \E dbOk \in BOOLEAN :
       IF dbOk
       THEN persist' = [persist EXCEPT
              !.status[r] = "completed", !.runs[r].pc = "done"]
       ELSE persist' = [persist EXCEPT !.runs[r] = PersistRaise(@)]
  /\ UNCHANGED notPersistVars

\* lines 326-333
WriteFailed(r) ==
  /\ PersistRun(r).pc = "except"
  /\ \E dbOk \in BOOLEAN :
       IF dbOk
       THEN persist' = [persist EXCEPT
              !.status[r] = "failed", !.runs[r].pc = "done"]
       ELSE persist' = [persist EXCEPT !.runs[r].pc = "crashed"]
  /\ UNCHANGED notPersistVars

NextPersist ==
  \E r \in PersistRunIds :
    \/ CreateTranscript(r)
    \/ CreateSegment(r)
    \/ GenerateSummary(r)
    \/ CreateSummary(r)
    \/ CreateActionItem(r)
    \/ EntityBlockEnds(r)
    \/ WriteCompleted(r)
    \/ WriteFailed(r)

InitPersist ==
  /\ PipeInit /\ ScratchIdle /\ RoutingIdle /\ WhisperIdle
  /\ TransformIdle /\ SegmentsIdle /\ SummaryIdle /\ ExtractionIdle
  /\ AudioIdle /\ ChatIdle /\ ConfigIdle
  /\ UpsertIdle /\ PersistInit /\ RecordingIdle

SpecPersist == InitPersist /\ [][NextPersist]_vars

\* the indexes of the Transcript / Summary rows of session s
TranscriptsOf(s) ==
  {i \in 1..Len(persist.transcripts) : persist.transcripts[i].sessionId = s}

SummariesOf(s) ==
  {i \in 1..Len(persist.summaries) : persist.summaries[i].sessionId = s}

\* the segment rows of transcript t, in the order they were stored
StoredSegments(t) ==
  LET rows == SelectSeq(persist.segments, LAMBDA x : x.transcriptId = t)
  IN [i \in 1..Len(rows) |-> rows[i].row]

\* the descriptions of the action items of summary m
StoredItems(m) ==
  LET rows == SelectSeq(persist.actionItems, LAMBDA x : x.summaryId = m)
  IN [i \in 1..Len(rows) |-> rows[i].description]

\* C27: a session with status 'completed' has exactly one transcript, whose
\* segment rows are those of the in-memory TranscriptResult with order
\* 0..n-1 in its position order, and exactly one summary with all of its
\* action items.
C27_CompletedSessionFullyStored ==
  \A r \in PersistRunIds :
    persist.status[r] = "completed" =>
      /\ Cardinality(TranscriptsOf(r)) = 1
      /\ \A t \in TranscriptsOf(r) :
           /\ StoredSegments(t) = SegmentRows(PersistRun(r).transcript_result)
           /\ \A i \in 1..Len(StoredSegments(t)) : StoredSegments(t)[i].order = i - 1
      /\ Cardinality(SummariesOf(r)) = 1
      /\ \A m \in SummariesOf(r) : StoredItems(m) = PersistRun(r).action_items

\* a session completed with two segments and two action items while the run
\* of the other session failed with a part of its transcript stored
C27_Witness ==
  /\ persist.status[1] = "completed"
  /\ Len(PersistRun(1).transcript_result.segments) = 2
  /\ Len(PersistRun(1).action_items) = 2
  /\ persist.status[2] = "failed"
  /\ \E t \in TranscriptsOf(2) :
       Len(StoredSegments(t)) = 1
         /\ Len(PersistRun(2).transcript_result.segments) = 2
====
